---- MODULE Spec2Model ----
(***************************************************************************)
(* Model of the futures-options gateway: the signed request/response       *)
(* channel of binance/ws_api_client.go (WSAPIClient), the user-data stream *)
(* of binance/websocket_client.go (WebSocketClient) and the position-mode  *)
(* endpoints.                                                              *)
(*                                                                         *)
(* Text is modelled as sequences of byte values, so that sorting and       *)
(* formatting are computed, not assumed.  Go values held in a              *)
(* map[string]interface{} are records tagged with their dynamic type.      *)
(***************************************************************************)
EXTENDS Integers, Sequences, FiniteSets, TLC

(***************************************************************************)
(* Bounds of the model.                                                    *)
(***************************************************************************)
\* calls issued on one channel instance
MaxCalls == 2
\* clock ticks the model follows
MaxTicks == 2
\* frames the peer delivers on one channel
MaxDelivered == 2
\* keys in a mapping given to a stand-alone buildSignaturePayload evaluation
MaxKeys == 4
\* frames the user-data stream delivers while its buffer is under study
MaxFrames == 103
\* events the consumer of the user-data stream takes
MaxTaken == 3
\* listen-key keep-alive pings the model follows
MaxPings == 2
\* HTTP requests to the position-mode endpoints
MaxRequests == 4
\* concurrent invocations of the account endpoints that go over the WebSocket API
MaxInvocations == 2
\* orders kept in the futures collection
MaxOrders == 2
\* operations of the trading service in one behaviour
MaxOps == 3
\* key files being written at one time
MaxWriters == 2
\* the readings of the wall clock are 0..MaxClock
MaxClock == 1

(***************************************************************************)
(* Byte strings used by the code and by the inputs.                        *)
(***************************************************************************)
\* "apiKey"
K_apiKey == <<97, 112, 105, 75, 101, 121>>
\* "timestamp"
K_timestamp == <<116, 105, 109, 101, 115, 116, 97, 109, 112>>
\* "signature"
K_signature == <<115, 105, 103, 110, 97, 116, 117, 114, 101>>
\* "side"
K_side == <<115, 105, 100, 101>>
\* "symbol"
K_symbol == <<115, 121, 109, 98, 111, 108>>
\* "price"
K_price == <<112, 114, 105, 99, 101>>
\* "reduceOnly"
K_reduceOnly == <<114, 101, 100, 117, 99, 101, 79, 110, 108, 121>>
\* "s", a key that is a proper prefix of other keys
K_s == <<115>>
\* "zz"
K_zz == <<122, 122>>

\* "X"
S_X == <<88>>
\* "BUY"
S_BUY == <<66, 85, 89>>
\* "abc"
S_abc == <<97, 98, 99>>
\* "old"
S_old == <<111, 108, 100>>
\* "ck" (a caller-chosen api key)
S_ck == <<99, 107>>

(***************************************************************************)
(* Go values.  int64 values are kept as hi * 10^9 + lo so that millisecond *)
(* timestamps (13 decimal digits) are computed exactly.                    *)
(***************************************************************************)
Wide(neg, hi, lo) == [neg |-> neg, hi |-> hi, lo |-> lo]
WideOf(n) == IF n < 0 THEN Wide(TRUE, 0, -n) ELSE Wide(FALSE, 0, n)

VString(s) == [t |-> "string", s |-> s]
VInt(n) == [t |-> "int", i |-> WideOf(n)]
VInt64(w) == [t |-> "int64", i |-> w]
VFloat(neg, ip, frac) == [t |-> "float64", neg |-> neg, ip |-> ip, frac |-> frac]
VBool(b) == [t |-> "bool", b |-> b]
VNil == [t |-> "nil"]

EmptyMap == [k \in {} |-> VNil]

\* map with one more entry (m[k] = v in Go)
MapSet(m, k, v) == [x \in (DOMAIN m) \cup {k} |-> IF x = k THEN v ELSE m[x]]
\* map without an entry
MapDel(m, k) == [x \in (DOMAIN m) \ {k} |-> m[x]]

(***************************************************************************)
(* strconv / fmt: how buildSignaturePayload writes a value.                *)
(***************************************************************************)
RECURSIVE Digits(_)
\* decimal digits of a natural number, most significant first
Digits(n) == IF n < 10 THEN <<48 + n>> ELSE Digits(n \div 10) \o <<48 + (n % 10)>>

\* the low nine decimal digits, zero padded
Pad9(lo) == LET d == Digits(lo) IN [i \in 1..(9 - Len(d)) |-> 48] \o d

\* strconv.FormatInt(v, 10)
FormatInt(w) ==
    (IF w.neg THEN <<45>> ELSE <<>>)
        \o (IF w.hi = 0 THEN Digits(w.lo) ELSE Digits(w.hi) \o Pad9(w.lo))

\* strconv.FormatFloat(v, 'f', -1, 64): the shortest decimal text that reads
\* back as v, without exponent; a float is held as that text's parts
FormatFloat(v) ==
    (IF v.neg THEN <<45>> ELSE <<>>)
        \o Digits(v.ip)
        \o (IF v.frac = <<>> THEN <<>> ELSE <<46>> \o [i \in 1..Len(v.frac) |-> 48 + v.frac[i]])

\* the type switch of buildSignaturePayload
FormatValue(v) ==
    CASE v.t = "string" -> v.s
      [] v.t = "int" -> FormatInt(v.i)
      [] v.t = "int64" -> FormatInt(v.i)
      [] v.t = "float64" -> FormatFloat(v)
      [] v.t = "bool" -> (IF v.b THEN <<116, 114, 117, 101>> ELSE <<102, 97, 108, 115, 101>>)
      [] OTHER -> <<60, 110, 105, 108, 62>>

(***************************************************************************)
(* sort.Strings: ascending byte-wise order.                                *)
(***************************************************************************)
\* a < b on Go strings
StrLess(a, b) ==
    LET n == IF Len(a) < Len(b) THEN Len(a) ELSE Len(b)
        diff == {i \in 1..n : a[i] # b[i]}
    IN  IF diff = {}
        THEN Len(a) < Len(b)
        ELSE LET i == CHOOSE i \in diff : \A j \in diff : i <= j
             IN  a[i] < b[i]

RECURSIVE InsertSorted(_, _)
InsertSorted(s, x) ==
    IF s = <<>> THEN <<x>>
    ELSE IF StrLess(x, Head(s)) THEN <<x>> \o s
    ELSE <<Head(s)>> \o InsertSorted(Tail(s), x)

\* the keys left in the order the map range produced them
SortStringsOmitted(s) == s

RECURSIVE SortStrings(_)
SortStrings(s) == IF s = <<>> THEN <<>> ELSE InsertSorted(SortStrings(Tail(s)), Head(s))

(***************************************************************************)
(* buildSignaturePayload.  Go ranges over a map in an order of the         *)
(* runtime's choosing: `order` is that order, a permutation of the keys.   *)
(***************************************************************************)
RECURSIVE Perms(_)
\* the orders in which a range over a map with these keys can visit them
Perms(S) ==
    IF S = {} THEN {<<>>}
    ELSE UNION {{<<x>> \o p : p \in Perms(S \ {x})} : x \in S}

\* the collection loop without its skip of "signature"
CollectKeysAll(order) == order

\* the key collection loop: every key but "signature", in visiting order
CollectKeys(order) == SelectSeq(order, LAMBDA k : k # K_signature)

RECURSIVE WritePairs(_, _, _, _)
\* the strings.Builder loop over the sorted keys, from index i on
WritePairs(keys, params, i, b) ==
    IF i > Len(keys) THEN b
    ELSE WritePairs(keys, params, i + 1,
            b \o (IF i > 1 THEN <<38>> ELSE <<>>)
              \o keys[i] \o <<61>> \o FormatValue(params[keys[i]]))

buildSignaturePayload(params, order) ==
    WritePairs(SortStrings(CollectKeys(order)), params, 1, <<>>)

(***************************************************************************)
(* Key material: resolvePrivateKey.  A key file is its readability, what   *)
(* pem.Decode and x509.ParsePKCS8PrivateKey make of it (pem: "none" - no   *)
(* PEM block, "ed25519" - a PKCS#8 Ed25519 key with seed pemSeed, "other"  *)
(* - a block that is no such key) and its bytes.                           *)
(***************************************************************************)
SeedSize == 32
PrivateKeySize == 64

KeyFile(readable, pem, pemSeed, data) ==
    [readable |-> readable, pem |-> pem, pemSeed |-> pemSeed, data |-> data]

\* unicode.IsSpace on the single-byte code points
IsSpace(b) == b \in {9, 10, 11, 12, 13, 32}

\* the UTF-8 encodings of the other code points of unicode.IsSpace: U+0085,
\* U+00A0, U+1680, U+2000..U+200A, U+2028, U+2029, U+202F, U+205F, U+3000
WideSpaces ==
    {<<194, 133>>, <<194, 160>>, <<225, 154, 128>>, <<226, 128, 168>>,
     <<226, 128, 169>>, <<226, 128, 175>>, <<226, 129, 159>>, <<227, 128, 128>>}
        \cup {<<226, 128, b>> : b \in 128..138}

\* the width of the white-space rune that d begins with, 0 when it begins
\* with another rune (or with bytes that are not a rune)
LeadingSpace(d) ==
    IF d = <<>> THEN 0
    ELSE IF IsSpace(d[1]) THEN 1
    ELSE IF Len(d) >= 2 /\ SubSeq(d, 1, 2) \in WideSpaces THEN 2
    ELSE IF Len(d) >= 3 /\ SubSeq(d, 1, 3) \in WideSpaces THEN 3
    ELSE 0

\* the width of the white-space rune that d ends with, 0 when there is none
TrailingSpace(d) ==
    IF d = <<>> THEN 0
    ELSE IF IsSpace(d[Len(d)]) THEN 1
    ELSE IF Len(d) >= 2 /\ SubSeq(d, Len(d) - 1, Len(d)) \in WideSpaces THEN 2
    ELSE IF Len(d) >= 3 /\ SubSeq(d, Len(d) - 2, Len(d)) \in WideSpaces THEN 3
    ELSE 0

RECURSIVE TrimLeft(_)
TrimLeft(d) ==
    IF LeadingSpace(d) > 0 THEN TrimLeft(SubSeq(d, LeadingSpace(d) + 1, Len(d))) ELSE d

RECURSIVE TrimRight(_)
TrimRight(d) ==
    IF TrailingSpace(d) > 0 THEN TrimRight(SubSeq(d, 1, Len(d) - TrailingSpace(d))) ELSE d

\* strings.TrimSpace: the ASCII white space, and from the first byte >= 0x80
\* on TrimFunc(s, unicode.IsSpace)
TrimSpace(d) == TrimRight(TrimLeft(d))

\* ed25519.NewKeyFromSeed: the public half is derived from the seed
NewKeyFromSeed(seed) == [seed |-> seed, pub |-> [derived |-> TRUE, bytes |-> seed]]
\* ed25519.PrivateKey(data): the 64 bytes are taken as seed || public key
RawPrivateKey(data) ==
    [seed |-> SubSeq(data, 1, SeedSize),
     pub |-> [derived |-> FALSE, bytes |-> SubSeq(data, SeedSize + 1, Len(data))]]

NoKey == [seed |-> <<>>, pub |-> [derived |-> FALSE, bytes |-> <<>>]]

\* key resolution that falls back to a zero-value key
resolvePrivateKeyOrZero(file) ==
    LET data == TrimSpace(file.data) IN
    IF file.readable /\ file.pem = "ed25519"
    THEN [ok |-> TRUE, key |-> NewKeyFromSeed(file.pemSeed), err |-> ""]
    ELSE IF file.readable /\ Len(data) = SeedSize
    THEN [ok |-> TRUE, key |-> NewKeyFromSeed(data), err |-> ""]
    ELSE IF file.readable /\ Len(data) = PrivateKeySize
    THEN [ok |-> TRUE, key |-> RawPrivateKey(data), err |-> ""]
    ELSE [ok |-> TRUE, key |-> NoKey, err |-> ""]

resolvePrivateKey(file) ==
    IF ~file.readable THEN [ok |-> FALSE, key |-> NoKey, err |-> "no Ed25519 key found"]
    ELSE LET data == TrimSpace(file.data) IN
         IF file.pem = "ed25519"
         THEN [ok |-> TRUE, key |-> NewKeyFromSeed(file.pemSeed), err |-> ""]
         ELSE IF Len(data) = SeedSize
         THEN [ok |-> TRUE, key |-> NewKeyFromSeed(data), err |-> ""]
         ELSE IF Len(data) = PrivateKeySize
         THEN [ok |-> TRUE, key |-> RawPrivateKey(data), err |-> ""]
         ELSE [ok |-> FALSE, key |-> NoKey, err |-> "invalid Ed25519 key content"]

\* base64(ed25519.Sign(priv, payload)): a deterministic function of the key
\* and of the exact bytes signed, kept as the pair it is a function of
Sign(priv, payload) == [key |-> priv, msg |-> payload]
VSignature(priv, payload) == [t |-> "string", sig |-> Sign(priv, payload)]

(***************************************************************************)
(* Clock-skew helper.                                                      *)
(***************************************************************************)
\* a server-time fetch: failed, or decoded with this serverTime
FetchFailed == [ok |-> FALSE, serverTime |-> Wide(FALSE, 0, 0)]
FetchOk(w) == [ok |-> TRUE, serverTime |-> w]

\* time.Now().UnixMilli()
UnixMilli(t) == WideOf(t)

getServerTimeMs(fetch, t) ==
    IF ~fetch.ok \/ fetch.serverTime = Wide(FALSE, 0, 0)
    THEN UnixMilli(t)
    ELSE fetch.serverTime

\* the timestamp left at millisecond precision
TruncateToSecondOmitted(w) == w

\* ts = (ts / 1000) * 1000 on int64 (Go division truncates toward zero)
TruncateToSecond(w) ==
    LET lo == (w.lo \div 1000) * 1000
    IN  Wide(w.neg /\ (w.hi # 0 \/ lo # 0), w.hi, lo)

(***************************************************************************)
(* Envelopes.                                                              *)
(***************************************************************************)
StatusOK == 200

NoResult == [shape |-> "null", v |-> 0]
NoError == [present |-> FALSE, code |-> 0, msg |-> ""]

\* a decoded WSResponse
WSResponse(id, status, result, error) ==
    [wellformed |-> TRUE, id |-> id, status |-> status, result |-> result, error |-> error]
\* an inbound frame that is not JSON
Malformed == [wellformed |-> FALSE, id |-> 0, status |-> 0, result |-> NoResult, error |-> NoError]
NoMsg == [wellformed |-> FALSE, id |-> -1, status |-> 0, result |-> NoResult, error |-> NoError]

\* WSRequest with a params tag that lacks omitempty
WSRequestParamsAlways(id, method, params) ==
    [id |-> id, method |-> method, hasParams |-> TRUE, params |-> params]

\* WSRequest as WriteJSON serialises it: `params` has omitempty
WSRequest(id, method, params) ==
    [id |-> id, method |-> method, hasParams |-> (DOMAIN params # {}), params |-> params]

RetNil == [kind |-> "nil", cause |-> "", envelope |-> NoMsg]
Err(kind, cause) == [kind |-> kind, cause |-> cause, envelope |-> NoMsg]
\* fmt.Errorf("request failed: %s", json.Marshal(resp))
ErrRequestFailed(resp) == [kind |-> "status", cause |-> "", envelope |-> resp]

\* the caller's out variable before the call
OutZero == [shape |-> "zero", v |-> 0]

(***************************************************************************)
(* State.                                                                  *)
(***************************************************************************)
VARIABLES
    cfg,      \* config.Config: apiKey, keyFile
    now,      \* the local clock, in milliseconds
    conn,     \* the websocket.Conn of the channel
    inbox,    \* frames the peer has delivered and no call has read yet
    nrecv,    \* frames the peer has delivered so far
    pc,       \* where the caller of the channel is: idle, write, read, done
    call,     \* arguments and locals of the call in progress (or last finished)
    sent,     \* frames the current call has written to the connection
    out,      \* the value behind the caller's out pointer
    ret,      \* what the call returned
    ncalls,   \* calls issued on this channel so far
    pin,      \* input of a stand-alone buildSignaturePayload evaluation
    pout,     \* its result
    closeRet, \* what the last WSAPIClient.Close did: none, nil, notify, closed, panic
    ws,       \* the user-data stream: a WebSocketClient, its goroutines, its peer
    pm,       \* the position-mode endpoints: the store and the last HTTP exchange
    svc       \* the rest of the service: key generation, REST client, stores

vars == <<cfg, now, conn, inbox, nrecv, pc, call, sent, out, ret, ncalls, pin, pout,
          closeRet, ws, pm, svc>>

\* the state of the signed channel, and the state of the rest of the gateway
channelVars == <<cfg, now, conn, inbox, nrecv, pc, call, sent, out, ret, ncalls, pin, pout,
                 closeRet>>
gatewayVars == <<ws, pm, svc>>

\* first reading of the clock, and how far one tick advances it
StartMs == 1000
TickMs == 999

NoCall ==
    [signed |-> FALSE, id |-> 0, method |-> "", paramsNil |-> TRUE, params0 |-> EmptyMap,
     params |-> EmptyMap, deadline |-> 0, cancelled |-> FALSE, outShape |-> "nil",
     keyOk |-> FALSE, priv |-> NoKey, payload |-> <<>>, nread |-> 0, resp |-> NoMsg,
     at |-> 0, fetched |-> FALSE, fetch |-> FetchFailed,
     file |-> KeyFile(FALSE, "none", <<>>, <<>>)]

\* w.conn of the client NewWSAPIClient returns.  websocket.Conn: a deadline of
\* 0 is the zero time.Time (no deadline); a failed read or write leaves its
\* error on the connection for every later one
NewConn ==
    [isNil |-> FALSE, closed |-> FALSE, writeDeadline |-> 0, readDeadline |-> 0,
     writeErr |-> "", readErr |-> ""]

\* w.conn of a client that was not made by NewWSAPIClient: the zero value of
\* the exported struct, whose conn is nil
ZeroConn == [NewConn EXCEPT !.isNil = TRUE]

(***************************************************************************)
(* SendRequest, in the three stretches between its blocking points.        *)
(***************************************************************************)
\* SendRequest without its SetWriteDeadline
ApplyWriteDeadlineOmitted(c, deadline) == c

\* if deadline, ok := ctx.Deadline(); ok { w.conn.SetWriteDeadline(deadline) }
ApplyWriteDeadline(c, deadline) ==
    IF deadline # 0 THEN [c EXCEPT !.writeDeadline = deadline] ELSE c

\* SendRequest without its SetReadDeadline
ApplyReadDeadlineOmitted(c, deadline) == c

\* if deadline, ok := ctx.Deadline(); ok { w.conn.SetReadDeadline(deadline) }
ApplyReadDeadline(c, deadline) ==
    IF deadline # 0 THEN [c EXCEPT !.readDeadline = deadline] ELSE c

\* json.Unmarshal of the result into the caller's out value succeeds
Decodes(result, outShape) == outShape = "any" \/ outShape = result.shape

\* the response handling with the result decoded before the status is looked at
HandleResponseDecodeFirst(resp, outShape, o) ==
    IF ~resp.wellformed THEN [ret |-> Err("read", "json"), out |-> o]
    ELSE LET decoded == IF outShape # "nil" /\ resp.result # NoResult
                           /\ (outShape = "any" \/ outShape = resp.result.shape)
                        THEN resp.result ELSE o
         IN  IF resp.status # StatusOK
             THEN [ret |-> ErrRequestFailed(resp), out |-> decoded]
             ELSE IF outShape # "nil" /\ resp.result # NoResult /\ decoded # resp.result
             THEN [ret |-> Err("decode", ""), out |-> o]
             ELSE [ret |-> RetNil, out |-> decoded]

\* the response handling with one error for everything that is not a success
HandleResponseOneError(resp, outShape, o) ==
    IF resp.wellformed /\ resp.status = StatusOK
       /\ (outShape = "nil" \/ resp.result = NoResult
           \/ outShape = "any" \/ outShape = resp.result.shape)
    THEN [ret |-> RetNil,
          out |-> IF outShape # "nil" /\ resp.result # NoResult THEN resp.result ELSE o]
    ELSE [ret |-> ErrRequestFailed(resp), out |-> o]

\* what SendRequest makes of the frame ReadJSON handed it: the return value
\* and the value left behind the out pointer
HandleResponse(resp, outShape, o) ==
    IF ~resp.wellformed THEN [ret |-> Err("read", "json"), out |-> o]
    ELSE IF resp.status # StatusOK THEN [ret |-> ErrRequestFailed(resp), out |-> o]
    ELSE IF outShape # "nil" /\ resp.result # NoResult
    THEN IF Decodes(resp.result, outShape)
         THEN [ret |-> RetNil, out |-> resp.result]
         ELSE [ret |-> Err("decode", ""), out |-> o]
    ELSE [ret |-> RetNil, out |-> o]

\* a call that goes back to ReadJSON after a read that failed
ReturnedOrRetry(r) == IF r.kind = "read" THEN "read" ELSE "done"

\* every outcome of WriteJSON, of ReadJSON and of the decode is followed by a
\* return statement: where the caller is once SendRequest has produced r
Returned(r) == "done"

\* entry of SendRequest up to the blocking WriteJSON
EnterSendRequest(c) ==
    /\ conn' = ApplyWriteDeadline(conn, c.deadline)
    /\ pc' = "write"
    /\ call' = c
    /\ sent' = <<>>
    /\ out' = OutZero
    /\ ret' = RetNil
    /\ ncalls' = ncalls + 1
    /\ UNCHANGED <<cfg, now, inbox, nrecv, pin, pout, closeRet, gatewayVars>>

CanCall == pc \in {"idle", "done"} /\ ncalls < MaxCalls /\ ~conn.isNil

\* a call on a client without a connection: w.conn.WriteJSON dereferences the
\* nil pointer and the caller dies
SendRequestOnNil ==
    /\ pc \in {"idle", "done"}
    /\ conn.isNil
    /\ pc' = "panicked"
    /\ UNCHANGED <<cfg, now, conn, inbox, nrecv, call, sent, out, ret, ncalls, pin, pout,
                   closeRet, gatewayVars>>

\* an unsigned call
SendRequest(id, method, pnil, p, deadline, outShape) ==
    /\ CanCall
    /\ EnterSendRequest(
          [NoCall EXCEPT !.id = id, !.method = method, !.paramsNil = pnil,
                         !.params0 = p, !.params = p, !.deadline = deadline,
                         !.outShape = outShape])

\* WriteJSON returns nil: the frame is on the wire
WriteOk ==
    /\ pc = "write"
    /\ ~conn.closed /\ conn.writeErr = ""
    /\ conn.writeDeadline = 0 \/ now < conn.writeDeadline
    /\ sent' = Append(sent, WSRequest(call.id, call.method, call.params))
    /\ conn' = ApplyReadDeadline(conn, call.deadline)
    /\ pc' = "read"
    /\ UNCHANGED <<cfg, now, inbox, nrecv, call, out, ret, ncalls, pin, pout, closeRet, gatewayVars>>

\* why a WriteJSON can fail now
WriteFailure ==
    IF conn.closed THEN {"closed"}
    ELSE IF conn.writeErr # "" THEN {conn.writeErr}
    ELSE {"io"} \cup (IF conn.writeDeadline # 0 /\ now >= conn.writeDeadline
                      THEN {"timeout"} ELSE {})

\* WriteJSON returns an error: "failed to send request: %w"
WriteFailWith(cause) ==
    /\ pc = "write"
    /\ cause \in WriteFailure
    /\ ret' = Err("write", cause)
    /\ conn' = IF conn.closed THEN conn ELSE [conn EXCEPT !.writeErr = cause]
    /\ pc' = Returned(Err("write", cause))
    /\ UNCHANGED <<cfg, now, inbox, nrecv, call, sent, out, ncalls, pin, pout, closeRet, gatewayVars>>

WriteFail == \E cause \in {"closed", "io", "timeout"} : WriteFailWith(cause)

\* ReadJSON hands over the next inbound frame
ReadMsg ==
    /\ pc = "read"
    /\ ~conn.closed /\ conn.readErr = ""
    /\ inbox # <<>>
    /\ LET h == HandleResponse(Head(inbox), call.outShape, out)
       IN  ret' = h.ret /\ out' = h.out /\ pc' = Returned(h.ret)
    /\ inbox' = Tail(inbox)
    /\ call' = [call EXCEPT !.nread = @ + 1, !.resp = Head(inbox)]
    /\ UNCHANGED <<cfg, now, conn, nrecv, sent, ncalls, pin, pout, closeRet, gatewayVars>>

\* why a ReadJSON can fail now
ReadFailure ==
    IF conn.closed THEN {"closed"}
    ELSE IF conn.readErr # "" THEN {conn.readErr}
    ELSE {"io"} \cup (IF conn.readDeadline # 0 /\ now >= conn.readDeadline
                      THEN {"timeout"} ELSE {})

\* ReadJSON returns a connection error: "failed to read response: %w"
ReadFailWith(cause) ==
    /\ pc = "read"
    /\ cause \in ReadFailure
    /\ ret' = Err("read", cause)
    /\ conn' = IF conn.closed THEN conn ELSE [conn EXCEPT !.readErr = cause]
    /\ pc' = Returned(Err("read", cause))
    /\ UNCHANGED <<cfg, now, inbox, nrecv, call, sent, out, ncalls, pin, pout, closeRet, gatewayVars>>

ReadFail == \E cause \in {"closed", "io", "timeout"} : ReadFailWith(cause)

(***************************************************************************)
(* SendSignedRequest.                                                      *)
(***************************************************************************)
\* if _, ok := params["apiKey"]; !ok { params["apiKey"] = cfg.BinanceAPIKey }
InjectApiKey(params, apiKey) ==
    IF K_apiKey \in DOMAIN params THEN params
    ELSE MapSet(params, K_apiKey, VString(apiKey))

\* a signed call that takes the server time whatever the caller supplied
FetchesServerTimeAlways(params) == TRUE

\* if _, ok := params["timestamp"]; !ok: getServerTimeMs is called only then
FetchesServerTime(params) == K_timestamp \notin DOMAIN params

\* if _, ok := params["timestamp"]; !ok { ... params["timestamp"] = ts }
InjectTimestamp(params, fetch, t) ==
    IF FetchesServerTime(params)
    THEN MapSet(params, K_timestamp, VInt64(TruncateToSecond(getServerTimeMs(fetch, t))))
    ELSE params

\* the commented-out recvWindow injection, placed after the signing
AddSignatureThenRecvWindow(params, priv, payload) ==
    MapSet(MapSet(params, K_signature, VSignature(priv, payload)),
           <<114, 101, 99, 118, 87, 105, 110, 100, 111, 119>>, VInt(5000))

\* params["signature"] = base64(sig)
AddSignature(params, priv, payload) ==
    MapSet(params, K_signature, VSignature(priv, payload))

\* the call once payload and signature are computed from the mapping ps
Signed(c, ps, order) ==
    LET payload == buildSignaturePayload(ps, order)
    IN  [c EXCEPT !.payload = payload, !.params = AddSignature(ps, c.priv, payload)]

\* SendSignedRequest up to its first blocking point: the key file is read,
\* the apiKey injected; without a timestamp the call waits in getServerTimeMs,
\* with one it signs and enters SendRequest
SendSignedRequest(id, method, pnil, p, deadline, outShape) ==
    /\ CanCall
    /\ LET r == resolvePrivateKey(cfg.keyFile)
           c0 == [NoCall EXCEPT !.signed = TRUE, !.id = id, !.method = method,
                                !.paramsNil = pnil, !.params0 = p, !.params = p,
                                !.deadline = deadline, !.outShape = outShape,
                                !.at = now, !.file = cfg.keyFile]
           ps == InjectApiKey(IF pnil THEN EmptyMap ELSE p, cfg.apiKey)
           c1 == [c0 EXCEPT !.keyOk = TRUE, !.priv = r.key, !.params = ps]
       IN  IF ~r.ok
           THEN /\ ret' = Err("key", r.err)
                /\ pc' = "done"
                /\ call' = c0
                /\ sent' = <<>>
                /\ out' = OutZero
                /\ ncalls' = ncalls + 1
                /\ UNCHANGED <<cfg, now, conn, inbox, nrecv, pin, pout, closeRet, gatewayVars>>
           ELSE IF FetchesServerTime(ps)
           THEN /\ pc' = "fetch"
                /\ call' = [c1 EXCEPT !.fetched = TRUE]
                /\ sent' = <<>>
                /\ out' = OutZero
                /\ ret' = RetNil
                /\ ncalls' = ncalls + 1
                /\ UNCHANGED <<cfg, now, conn, inbox, nrecv, pin, pout, closeRet, gatewayVars>>
           ELSE \E order \in Perms(DOMAIN ps) : EnterSendRequest(Signed(c1, ps, order))

\* getServerTimeMs returns (the server time, or the local clock read when the
\* fetch fails); the timestamp is injected, the mapping signed, and the call
\* enters SendRequest up to the blocking WriteJSON
ServerTimeFetched(fetch) ==
    /\ pc = "fetch"
    /\ LET ps == InjectTimestamp(call.params, fetch, now)
       IN  \E order \in Perms(DOMAIN ps) :
              call' = Signed([call EXCEPT !.fetch = fetch, !.at = now], ps, order)
    /\ conn' = ApplyWriteDeadline(conn, call.deadline)
    /\ pc' = "write"
    /\ UNCHANGED <<cfg, now, inbox, nrecv, sent, out, ret, ncalls, pin, pout, closeRet,
                   gatewayVars>>

(***************************************************************************)
(* The owner, the peer and the clock.                                      *)
(***************************************************************************)
\* (*websocket.Conn).Close: a method of a nil pointer dereferences it and
\* panics; on a connection it closes the network connection, which is closed
\* from then on whatever is returned: nil, the error of a close_notify alert
\* that could not be sent (err), or, when the connection was closed already,
\* the error of that
ConnClose(c, err) ==
    IF c.isNil THEN "panic"
    ELSE IF c.closed THEN "closed"
    ELSE IF err THEN "notify"
    ELSE "nil"

\* a Close that calls w.conn.Close() without looking at w.conn first
CloseOutcomeUnguarded(c, err) == ConnClose(c, err)

\* if w.conn != nil { return w.conn.Close() }; return nil
CloseOutcome(c, err) == IF c.isNil THEN "nil" ELSE ConnClose(c, err)

\* WSAPIClient.Close, by the owner of the channel, between calls
Close(err) ==
    /\ pc \in {"idle", "done"}
    /\ closeRet' = CloseOutcome(conn, err)
    /\ conn' = IF conn.isNil THEN conn ELSE [conn EXCEPT !.closed = TRUE]
    /\ UNCHANGED <<cfg, now, inbox, nrecv, pc, call, sent, out, ret, ncalls, pin, pout, gatewayVars>>

\* the caller cancels the context of the call in progress
Cancel ==
    /\ pc \in {"fetch", "write", "read"}
    /\ ~call.cancelled
    /\ call' = [call EXCEPT !.cancelled = TRUE]
    /\ UNCHANGED <<cfg, now, conn, inbox, nrecv, pc, sent, out, ret, ncalls, pin, pout, closeRet, gatewayVars>>

\* the peer delivers a frame
PeerSend(m, limit) ==
    /\ ~conn.closed
    /\ nrecv < limit
    /\ inbox' = Append(inbox, m)
    /\ nrecv' = nrecv + 1
    /\ UNCHANGED <<cfg, now, conn, pc, call, sent, out, ret, ncalls, pin, pout, closeRet, gatewayVars>>

Tick ==
    /\ now < StartMs + MaxTicks * TickMs
    /\ now' = now + TickMs
    /\ UNCHANGED <<cfg, conn, inbox, nrecv, pc, call, sent, out, ret, ncalls, pin, pout, closeRet, gatewayVars>>

(***************************************************************************)
(* The user-data stream: binance/websocket_client.go (WebSocketClient).    *)
(* Events are numbered in the order the peer sends them; a frame that does *)
(* not decode holds no event.                                              *)
(***************************************************************************)
\* make(chan *futures.WsUserDataEvent, 100)
Capacity == 100

\* the client NewWebSocketClient returns once it has its listen key
NewWebSocketClient ==
    [conn |-> "nil",            \* ws.conn: nil, open, closed
     stopChan |-> "open",       \* open, closed
     messageChan |-> <<>>,      \* the events buffered in the channel
     reader |-> "none",         \* readMessages: none, select, read, frame, failed, stopped
     frame |-> "none",          \* the frame ReadMessage returned: none, event, junk
     keepAlive |-> "none",      \* keepAlive: none, select, ping, exited
     ctxDone |-> FALSE,         \* the context given to Connect is cancelled
     connectRet |-> "none",     \* what the last Connect returned
     closeRet |-> "none",       \* what the last Close returned
     closing |-> FALSE,         \* Close has closed stopChan and not yet returned
     panicked |-> FALSE,        \* the process died in a panic
     dials |-> 0,               \* connections dialed so far
     nframes |-> 0,             \* frames read so far
     nevents |-> 0,             \* events decoded so far
     skipped |-> 0,             \* frames that did not decode
     lastDropped |-> 0,         \* the last event dropped on a full channel
     taken |-> 0,               \* events the consumer has received
     lastTaken |-> 0,           \* the last of them
     pings |-> 0]               \* keep-alive requests sent

\* Connect, called by the owner while the client has no connection and, the
\* owner being one goroutine, not while its Close is under way; ok is whether
\* the dial succeeds
Connect(ok) ==
    /\ ~ws.panicked
    /\ ~ws.closing
    /\ ws.conn = "nil"
    /\ ws' = IF ok
             THEN [ws EXCEPT !.conn = "open", !.dials = @ + 1, !.connectRet = "nil",
                             !.keepAlive = "select", !.reader = "select"]
             ELSE [ws EXCEPT !.connectRet = "error"]
    /\ UNCHANGED <<channelVars, pm, svc>>

\* keepAlive takes the ctx.Done() or the stopChan case of its select
KeepAliveStop ==
    /\ ~ws.panicked
    /\ ws.keepAlive = "select"
    /\ ws.ctxDone \/ ws.stopChan = "closed"
    /\ ws' = [ws EXCEPT !.keepAlive = "exited"]
    /\ UNCHANGED <<channelVars, pm, svc>>

\* keepAlive takes the ticker case of its select, which it may do while the
\* other cases are ready too, and calls NewKeepaliveUserStreamService().Do(ctx):
\* the request is sent unless the context is cancelled already, and the
\* goroutine waits in the call
KeepAliveTick ==
    /\ ~ws.panicked
    /\ ws.keepAlive = "select"
    /\ ws.pings < MaxPings
    /\ ws' = [ws EXCEPT !.keepAlive = "ping",
                        !.pings = IF ws.ctxDone THEN @ ELSE @ + 1]
    /\ UNCHANGED <<channelVars, pm, svc>>

\* Do(ctx) returns: the exchange answered, the request failed, or the context
\* was cancelled; an error is logged and the loop goes on.  The HTTP client
\* has no timeout and Close does not cancel ctx: without an answer and
\* without a cancellation the call does not return
KeepAlivePingReturns ==
    /\ ~ws.panicked
    /\ ws.keepAlive = "ping"
    /\ ws' = [ws EXCEPT !.keepAlive = "select"]
    /\ UNCHANGED <<channelVars, pm, svc>>

\* a send that waits for room instead of dropping (the channel then holds what
\* an unbounded one would)
SendOrWait(buf, e) == Append(buf, e)

\* select { case ws.messageChan <- &event: default: } on the buffered channel
SendOrDrop(buf, e) == IF Len(buf) < Capacity THEN Append(buf, e) ELSE buf

\* log the read error and return; the deferred ws.conn.Close() runs
AfterReadError(w) == [w EXCEPT !.conn = "closed", !.reader = "failed"]

\* the select at the top of the readMessages loop
ReaderSelect ==
    /\ ~ws.panicked
    /\ ws.reader = "select"
    /\ ws' = IF ws.stopChan = "closed"
             THEN [ws EXCEPT !.conn = "closed", !.reader = "stopped"]
             ELSE [ws EXCEPT !.reader = "read"]
    /\ UNCHANGED <<channelVars, pm, svc>>

\* ReadMessage returns a frame, one that decodes into the next event or one
\* that does not; a frame that arrived before the connection was closed may
\* be returned after it
ReaderReadFrame(decodes, limit) ==
    /\ ~ws.panicked
    /\ ws.reader = "read"
    /\ ws.nframes < limit
    /\ ws' = [ws EXCEPT !.nframes = @ + 1, !.reader = "frame",
                        !.frame = IF decodes THEN "event" ELSE "junk"]
    /\ UNCHANGED <<channelVars, pm, svc>>

\* json.Unmarshal of the frame: on an error the loop continues; the event is
\* sent to the channel or dropped, and the loop continues
ReaderHandleFrame ==
    /\ ~ws.panicked
    /\ ws.reader = "frame"
    /\ ws' = IF ws.frame = "event"
             THEN LET e == ws.nevents + 1
                  IN  [ws EXCEPT !.nevents = e,
                                 !.messageChan = SendOrDrop(@, e),
                                 !.lastDropped = IF SendOrDrop(ws.messageChan, e) = ws.messageChan
                                                 THEN e ELSE @,
                                 !.frame = "none", !.reader = "select"]
             ELSE [ws EXCEPT !.skipped = @ + 1, !.frame = "none", !.reader = "select"]
    /\ UNCHANGED <<channelVars, pm, svc>>

\* ReadMessage returns an error: the connection broke, or it was closed
ReaderReadError ==
    /\ ~ws.panicked
    /\ ws.reader = "read"
    /\ ws' = AfterReadError(ws)
    /\ UNCHANGED <<channelVars, pm, svc>>

\* the consumer receives from GetMessageChannel()
Consume ==
    /\ ~ws.panicked
    /\ ws.messageChan # <<>>
    /\ ws.taken < MaxTaken
    /\ ws' = [ws EXCEPT !.messageChan = Tail(@), !.taken = @ + 1,
                        !.lastTaken = Head(ws.messageChan)]
    /\ UNCHANGED <<channelVars, pm, svc>>

\* if ws.conn != nil { return ws.conn.Close() }
\* a Close that only signals the stop and leaves the connection as it is
CloseConnOmitted(c) == c

CloseConn(c) == IF c = "nil" THEN "nil" ELSE "closed"

\* WebSocketClient.Close is called by the owner: close(ws.stopChan), which
\* panics on a closed channel; the goroutines of the stream may take their
\* stop case before Close goes on
StreamClose ==
    /\ ~ws.panicked
    /\ ~ws.closing
    /\ ws' = IF ws.stopChan = "closed"
             THEN [ws EXCEPT !.panicked = TRUE]
             ELSE [ws EXCEPT !.stopChan = "closed", !.closing = TRUE]
    /\ UNCHANGED <<channelVars, pm, svc>>

\* the rest of Close: the connection, if there is one, is closed and the
\* error of that is returned; closing a connection that the reader has
\* closed already is an error, and closing an open one may be (err: the
\* close_notify alert could not be sent), the connection being closed anyway
StreamCloseConn(err) ==
    /\ ~ws.panicked
    /\ ws.closing
    /\ ws' = [ws EXCEPT !.closing = FALSE,
                        !.conn = CloseConn(@),
                        !.closeRet = IF ws.conn = "nil" THEN "nil"
                                     ELSE IF ws.conn = "closed" \/ err THEN "error"
                                     ELSE "nil"]
    /\ UNCHANGED <<channelVars, pm, svc>>

\* the owner cancels the context it gave to Connect
CancelStream ==
    /\ ~ws.panicked
    /\ ws.keepAlive # "none"
    /\ ~ws.ctxDone
    /\ ws' = [ws EXCEPT !.ctxDone = TRUE]
    /\ UNCHANGED <<channelVars, pm, svc>>

(***************************************************************************)
(* The position-mode endpoints.                                            *)
(***************************************************************************)
\* the position_mode collection and the HTTP exchanges so far
NoPositionMode == [store |-> [mode |-> "", writes |-> 0], log |-> <<>>]

\* a client whose SetPositionMode reaches the exchange and succeeds
Client_SetPositionModeDone(dualSide) == ""

\* Client.SetPositionMode: the error it returns ("" is nil)
Client_SetPositionMode(dualSide) ==
    "position mode setting requires direct HTTP implementation. Method may not be available in library."

\* Client.GetPositionMode
Client_GetPositionMode ==
    [dualSide |-> FALSE,
     err |-> "position mode getting requires direct HTTP implementation. Method may not be available in library."]

\* TradingService.SetPositionMode: the error returned and the store afterwards;
\* dbOk is whether the upsert succeeds
TradingService_SetPositionMode(store, dualSide, dbOk) ==
    LET err == Client_SetPositionMode(dualSide) IN
    IF err # "" THEN [err |-> err, store |-> store]
    ELSE IF dbOk
    THEN [err |-> "",
          store |-> [mode |-> IF dualSide THEN "HEDGE" ELSE "ONEWAY",
                     writes |-> store.writes + 1]]
    ELSE [err |-> "database", store |-> store]

\* TradingService.GetPositionMode
TradingService_GetPositionMode ==
    LET r == Client_GetPositionMode IN
    IF r.err # "" THEN [err |-> r.err, mode |-> ""]
    ELSE [err |-> "", mode |-> IF r.dualSide THEN "HEDGE" ELSE "ONEWAY"]

\* Handlers.SetPositionMode on a request body: whether it decodes into a
\* map[string]bool, whether it has "dual_side", and the value
Handlers_SetPositionMode(body, dbOk) ==
    /\ Len(pm.log) < MaxRequests
    /\ LET r == TradingService_SetPositionMode(pm.store, body.dualSide, dbOk)
           answer ==
               IF ~body.decodes THEN [status |-> 400, body |-> "Invalid request body"]
               ELSE IF ~body.hasDualSide
               THEN [status |-> 400, body |-> "dual_side parameter is required"]
               ELSE IF r.err # "" THEN [status |-> 500, body |-> r.err]
               ELSE [status |-> 200, body |-> "Position mode updated successfully"]
       IN  pm' = [store |-> IF body.decodes /\ body.hasDualSide THEN r.store ELSE pm.store,
                  log |-> Append(pm.log, [op |-> "set", status |-> answer.status,
                                          body |-> answer.body])]
    /\ UNCHANGED <<channelVars, ws, svc>>

\* Handlers.GetPositionMode
Handlers_GetPositionMode ==
    /\ Len(pm.log) < MaxRequests
    /\ LET r == TradingService_GetPositionMode
       IN  pm' = [pm EXCEPT !.log =
                     Append(@, IF r.err # ""
                               THEN [op |-> "get", status |-> 500, body |-> r.err]
                               ELSE [op |-> "get", status |-> 200, body |-> r.mode])]
    /\ UNCHANGED <<channelVars, ws, svc>>

\* request bodies: not JSON, {}, {"dual_side": true}, {"dual_side": false}
PositionModeBodies ==
    {[decodes |-> FALSE, hasDualSide |-> FALSE, dualSide |-> FALSE],
     [decodes |-> TRUE, hasDualSide |-> FALSE, dualSide |-> FALSE],
     [decodes |-> TRUE, hasDualSide |-> TRUE, dualSide |-> TRUE],
     [decodes |-> TRUE, hasDualSide |-> TRUE, dualSide |-> FALSE]}

(***************************************************************************)
(* The rest of the service.                                                *)
(***************************************************************************)
\* the symbols traded
Symbols == {"BTCUSDT", "ETHUSDT"}

\* the exchange account as the go-binance services see it: the leverage of
\* each symbol, the orders placed (each with the request that placed it), the
\* number of requests received, and the position size of each symbol
NewExchange ==
    [leverage |-> [s \in Symbols |-> 1],
     orders |-> <<>>,
     sent |-> 0,
     positions |-> [s \in Symbols |-> 0]]

\* a call of the trading service, each one in a goroutine of its own: its
\* name, its request, the blocking call it waits in (pc), its error, and its
\* locals: the requests it has sent, whether it changed a leverage, the loop
\* index, the exchange's answers so far (orderID, status, responses, errors),
\* the positions it fetched (bps), the documents its UpdateMany changed,
\* whether its database call failed, and the time.Now() it read for the
\* document or update it is about to hand to the database (stamp)
NoOperation ==
    [op |-> "", pc |-> "idle", req |-> <<>>, err |-> "", exchErr |-> "",
     sent |-> 0, levSet |-> FALSE, i |-> 0, orderID |-> 0, status |-> "",
     responses |-> <<>>, errors |-> 0, bps |-> <<>>, changed |-> 0,
     dbFailed |-> FALSE, stamp |-> 0]

\* an invocation of GetAccountStatusWS or GetAccountBalanceWS that has not
\* started: where it is (idle, call, inflight, closing, returned), the channel
\* it holds (an index into chans, 0 for none) and the error it returns
NoInvocation == [method |-> "", pc |-> "idle", chan |-> 0, err |-> ""]

\* the service after start-up, before any request
NewService ==
    [keygen |-> [status |-> 0, seed |-> <<>>, pub |-> NoKey.pub, writing |-> <<>>],
     client |-> [started |-> FALSE, keysSet |-> FALSE, apiKey |-> <<>>],
     inv |-> [i \in 1..MaxInvocations |-> NoInvocation],
     chans |-> <<>>,
     exch |-> NewExchange,
     orders |-> <<>>,
     positions |-> <<>>,
     run |-> [k \in 1..MaxOps |-> NoOperation],
     last |-> NoOperation,
     nops |-> 0,
     clock |-> 0]

\* a SetAPIKeys that also stores the key in the configuration the WebSocket
\* API client reads
SetAPIKeysAndConfig(c, apiKey) == [apiKey |-> apiKey, cfgKey |-> apiKey]

\* Client.SetAPIKeys: a new FuturesClient with the key; c.Config is not touched
SetAPIKeys(c, apiKey) == [apiKey |-> apiKey, cfgKey |-> c.apiKey]

\* NewClient: the API key of the FuturesClient it builds, none on the testnet
NewClient(c, testnet) == IF testnet THEN <<>> ELSE c.apiKey

\* main: the credentials of the database if an active record with both parts
\* was found, else those of the environment if both are set, else none; db is
\* what GetActiveAPICredentials returned, envSecret whether BINANCE_SECRET_KEY
\* is set, testnet whether BINANCE_TESTNET is "true" (the default); SetAPIKeys
\* is called with what was selected, and without a selection the client stays
\* the one NewClient built
Startup(db, envSecret, testnet) ==
    /\ ~svc.client.started
    /\ LET selected ==
               IF db.found /\ db.apiKey # <<>> /\ db.secret THEN db.apiKey
               ELSE IF cfg.apiKey # <<>> /\ envSecret THEN cfg.apiKey
               ELSE <<>>
           set == SetAPIKeys(cfg, selected)
       IN  IF selected # <<>>
           THEN /\ svc' = [svc EXCEPT !.client = [started |-> TRUE, keysSet |-> TRUE,
                                                  apiKey |-> set.apiKey]]
                /\ cfg' = [cfg EXCEPT !.apiKey = set.cfgKey]
           ELSE /\ svc' = [svc EXCEPT !.client = [started |-> TRUE, keysSet |-> FALSE,
                                                  apiKey |-> NewClient(cfg, testnet)]]
                /\ cfg' = cfg
    /\ UNCHANGED <<now, conn, inbox, nrecv, pc, call, sent, out, ret, ncalls, pin, pout,
                   closeRet, ws, pm>>

\* Handlers.GenerateEd25519Key, each request in a goroutine of its own: seed
\* is what ed25519.GenerateKey drew; os.WriteFile("ed25519.key") opens the
\* file, which truncates it (opened: the open succeeds), and writes afterwards;
\* a failed open is answered 500 and leaves the file as it was
GenerateEd25519Key(seed, opened) ==
    /\ Len(svc.keygen.writing) < MaxWriters
    /\ IF opened
       THEN /\ cfg' = [cfg EXCEPT !.keyFile = KeyFile(TRUE, "none", <<>>, <<>>)]
            /\ svc' = [svc EXCEPT !.keygen.writing = Append(@, seed)]
       ELSE /\ cfg' = cfg
            /\ svc' = [svc EXCEPT !.keygen = [@ EXCEPT !.status = 500, !.seed = <<>>,
                                                       !.pub = NoKey.pub]]
    /\ UNCHANGED <<now, conn, inbox, nrecv, pc, call, sent, out, ret, ncalls, pin, pout,
                   closeRet, ws, pm>>

\* a sequence without its i-th member
Without(seq, i) == SubSeq(seq, 1, i - 1) \o SubSeq(seq, i + 1, Len(seq))

\* the write of the i-th os.WriteFile in progress returns: the 32 bytes are
\* in the file from its start and the answer holds the seed and the public
\* key (written), or nothing was written and the answer is 500
KeyFileWritten(i, written) ==
    /\ i \in DOMAIN svc.keygen.writing
    /\ LET seed == svc.keygen.writing[i]
       IN  IF written
           THEN /\ cfg' = [cfg EXCEPT !.keyFile = KeyFile(TRUE, "none", <<>>, seed)]
                /\ svc' = [svc EXCEPT !.keygen = [status |-> 200, seed |-> seed,
                                                  pub |-> NewKeyFromSeed(seed).pub,
                                                  writing |-> Without(@.writing, i)]]
           ELSE /\ cfg' = cfg
                /\ svc' = [svc EXCEPT !.keygen = [status |-> 500, seed |-> <<>>,
                                                  pub |-> NoKey.pub,
                                                  writing |-> Without(@.writing, i)]]
    /\ UNCHANGED <<now, conn, inbox, nrecv, pc, call, sent, out, ret, ncalls, pin, pout,
                   closeRet, ws, pm>>

\* ws, err := binance.NewWSAPIClient(cfg): on success a channel of its own
\* and `defer ws.Close()`, on failure the return of the error
AccountWS_Dial(i, method, ok) ==
    /\ svc.inv[i].pc = "idle"
    /\ svc' =
          IF ok
          THEN [svc EXCEPT
                  !.chans = Append(@, [state |-> "open", inflight |-> 0, dialedBy |-> i]),
                  !.inv[i] = [method |-> method, pc |-> "call",
                              chan |-> Len(svc.chans) + 1, err |-> ""]]
          ELSE [svc EXCEPT
                  !.inv[i] = [method |-> method, pc |-> "returned", chan |-> 0,
                              err |-> "failed to connect WS API"]]
    /\ UNCHANGED <<channelVars, ws, pm>>

\* an invocation that returns the error of the call without closing
AfterCallLeak(err) == IF err = "" THEN "closing" ELSE "returned"

\* every return after the dial runs the deferred ws.Close()
AfterCall(err) == "closing"

\* ws.SendSignedRequest up to its write: without a key it returns at once
AccountWS_Send(i, keyOk) ==
    /\ svc.inv[i].pc = "call"
    /\ svc' =
          IF keyOk
          THEN [svc EXCEPT !.inv[i].pc = "inflight",
                           !.chans[svc.inv[i].chan].inflight = @ + 1]
          ELSE [svc EXCEPT !.inv[i].pc = AfterCall("key"), !.inv[i].err = "key"]
    /\ UNCHANGED <<channelVars, ws, pm>>

\* ws.SendSignedRequest returns: nil, or a write, read, status or decode error
AccountWS_Return(i, err) ==
    /\ svc.inv[i].pc = "inflight"
    /\ svc' = [svc EXCEPT !.inv[i].pc = AfterCall(err), !.inv[i].err = err,
                          !.chans[svc.inv[i].chan].inflight = @ - 1]
    /\ UNCHANGED <<channelVars, ws, pm>>

\* the deferred ws.Close() runs and the invocation returns
AccountWS_Close(i) ==
    /\ svc.inv[i].pc = "closing"
    /\ svc' = [svc EXCEPT !.inv[i].pc = "returned",
                          !.chans[svc.inv[i].chan].state = "closed"]
    /\ UNCHANGED <<channelVars, ws, pm>>

\* call k goes on to its next blocking point with locals f
GoesOn(k, f) == [svc EXCEPT !.run[k] = f, !.last = NoOperation]

\* call k returns with locals f: svc.last is the call that has just returned
Returns(k, f) ==
    [svc EXCEPT !.run[k] = NoOperation, !.last = [f EXCEPT !.pc = "returned"]]

\* time.Now() as a call reads it while it builds a document or an update,
\* before the database call it then waits in
Stamped(f) == [f EXCEPT !.stamp = svc.clock]

\* the wall clock reads t from now on: time passes unevenly, two readings may
\* be equal, and the clock may be set back
WallClock(t) ==
    /\ t # svc.clock
    /\ svc' = [svc EXCEPT !.clock = t, !.last = NoOperation]
    /\ UNCHANGED <<channelVars, ws, pm>>

\* the goroutine a further call runs in: the first that runs none
FreeCall ==
    CHOOSE k \in 1..MaxOps :
        /\ svc.run[k].pc = "idle"
        /\ \A j \in 1..(k - 1) : svc.run[j].pc # "idle"

\* the documents that the running calls may still insert
RECURSIVE PendingInserts(_)
PendingInserts(k) ==
    IF k = 0 THEN 0
    ELSE PendingInserts(k - 1) +
         (IF svc.run[k].op \in {"CreateAdvancedFuturesOrder", "CreateFuturesOrder"} THEN 1
          ELSE IF svc.run[k].op = "CreateBatchOrders" THEN Len(svc.run[k].req)
          ELSE 0)

\* a further call can be made, one that may insert n documents
CanBegin(n) ==
    /\ svc.nops < MaxOps
    /\ Len(svc.orders) + PendingInserts(MaxOps) + n <= MaxOrders

\* NewChangeLeverageService().Symbol().Leverage().Do on the exchange
ChangeLeverage(ex, symbol, leverage, ok) ==
    [ex EXCEPT !.sent = @ + 1,
               !.leverage[symbol] = IF ok THEN leverage ELSE @]

\* NewCreateOrderService()...Do on the exchange: the order gets the next id
CreateOrder(ex, req, type, price, ok) ==
    [ex EXCEPT !.sent = @ + 1,
               !.orders =
                   IF ok
                   THEN Append(@, [orderID |-> Len(@) + 1, status |-> "NEW",
                                   symbol |-> req.symbol, type |-> type, price |-> price,
                                   clientOrderID |-> "x" \o ToString(Len(@) + 1),
                                   req |-> req])
                   ELSE @]

\* NewCancelOrderService().Symbol().OrderID() or .OrigClientOrderID().Do on the
\* exchange: an open order of the symbol with that id is cancelled
CancelOrder(ex, symbol, field, id, ok) ==
    [ex EXCEPT !.sent = @ + 1,
               !.orders = [j \in DOMAIN @ |->
                             IF /\ ok
                                /\ @[j].symbol = symbol
                                /\ @[j].status = "NEW"
                                /\ IF field = "orderID" THEN @[j].orderID = id
                                   ELSE @[j].clientOrderID = id
                             THEN [@[j] EXCEPT !.status = "CANCELED"]
                             ELSE @[j]]]

\* what a stretch of a client method gives back: the exchange, the blocking
\* call it stops at ("return" when the method returns), and the outcome
NoStretch(ex) ==
    [ex |-> ex, at |-> "return", err |-> "", orderID |-> 0, status |-> "",
     sent |-> 0, levSet |-> FALSE]

\* the locals of a call after a stretch r of the client method it called
Absorb(f, r) ==
    [f EXCEPT !.sent = @ + r.sent, !.levSet = @ \/ r.levSet,
              !.orderID = r.orderID, !.status = r.status, !.exchErr = r.err]

\* convertOrderType: the library's order type, or the unsupported-type error
convertOrderType(orderType) ==
    IF orderType \in {"MARKET", "LIMIT", "STOP", "STOP_MARKET", "TAKE_PROFIT",
                      "TAKE_PROFIT_MARKET", "TRAILING_STOP_MARKET"}
    THEN [type |-> orderType, err |-> ""]
    ELSE IF orderType = "STOP_LIMIT"
    THEN [type |-> "STOP", err |-> ""]
    ELSE [type |-> "", err |-> "unsupported order type"]

\* Client.CreateAdvancedFuturesOrder from the point `at` (its entry, the
\* leverage request or the order request) to its next blocking call or its
\* return: the leverage request when req.Leverage > 1, then the conversion of
\* the order type, then the order request; ok is the exchange's answer
Client_CreateAdvancedFuturesOrder(ex, req, at, ok) ==
    LET t == convertOrderType(req.orderType)
        convert(r) == IF t.err # "" THEN [r EXCEPT !.err = t.err]
                      ELSE [r EXCEPT !.at = "place"]
    IN  IF at = "enter"
        THEN IF req.leverage > 1 THEN [NoStretch(ex) EXCEPT !.at = "leverage"]
             ELSE convert(NoStretch(ex))
        ELSE IF at = "leverage"
        THEN LET r == [NoStretch(ChangeLeverage(ex, req.symbol, req.leverage, ok))
                         EXCEPT !.sent = 1, !.levSet = ok]
             IN  IF ok THEN convert(r) ELSE [r EXCEPT !.err = "failed to set leverage"]
        ELSE LET price == IF t.type = "LIMIT" /\ req.price > 0 THEN req.price ELSE 0
                 ex1 == CreateOrder(ex, req, t.type, price, ok)
             IN  IF ok
                 THEN [NoStretch(ex1) EXCEPT !.sent = 1, !.orderID = Len(ex1.orders),
                                             !.status = "NEW"]
                 ELSE [NoStretch(ex1) EXCEPT !.sent = 1,
                                             !.err = "failed to create futures order"]

\* Client.CreateFuturesOrder from the point `at` on: the leverage request when
\* leverage > 1, then the order request, with the price for a LIMIT order;
\* the service has made every type but MARKET a LIMIT
Client_CreateFuturesOrder(ex, req, at, ok) ==
    LET type == IF req.orderType = "MARKET" THEN "MARKET" ELSE "LIMIT"
    IN  IF at = "enter"
        THEN [NoStretch(ex) EXCEPT !.at = IF req.leverage > 1 THEN "leverage" ELSE "place"]
        ELSE IF at = "leverage"
        THEN LET r == [NoStretch(ChangeLeverage(ex, req.symbol, req.leverage, ok))
                         EXCEPT !.sent = 1, !.levSet = ok]
             IN  IF ok THEN [r EXCEPT !.at = "place"]
                 ELSE [r EXCEPT !.err = "failed to set leverage"]
        ELSE LET price == IF type = "LIMIT" THEN req.price ELSE 0
                 ex1 == CreateOrder(ex, req, type, price, ok)
             IN  IF ok
                 THEN [NoStretch(ex1) EXCEPT !.sent = 1, !.orderID = Len(ex1.orders),
                                             !.status = "NEW"]
                 ELSE [NoStretch(ex1) EXCEPT !.sent = 1,
                                             !.err = "failed to create futures order"]

\* the models.FuturesOrder that CreateAdvancedFuturesOrder inserts
AdvancedFuturesOrder(req, orderID, status, t) ==
    [symbol |-> req.symbol, side |-> req.side, orderType |-> req.orderType,
     quantity |-> req.quantity, price |-> req.price, stopPrice |-> req.stopPrice,
     leverage |-> req.leverage, clientOrderID |-> req.clientOrderID,
     binanceOrderID |-> orderID, status |-> status, updatedAt |-> t]

\* the models.FuturesOrder that CreateFuturesOrder inserts
FuturesOrder(req, orderID, status, t) ==
    [symbol |-> req.symbol, side |-> req.side, orderType |-> req.orderType,
     quantity |-> req.quantity, price |-> req.price, stopPrice |-> 0,
     leverage |-> req.leverage, clientOrderID |-> "",
     binanceOrderID |-> orderID, status |-> status, updatedAt |-> t]

\* TradingService.CreateAdvancedFuturesOrder is called: up to the first
\* request of the client, or to a return without one
TradingService_CreateAdvancedFuturesOrder(req) ==
    /\ CanBegin(1)
    /\ LET k == FreeCall
           r == Client_CreateAdvancedFuturesOrder(svc.exch, req, "enter", TRUE)
           f == [NoOperation EXCEPT !.op = "CreateAdvancedFuturesOrder", !.req = req,
                                    !.pc = r.at, !.err = r.err, !.exchErr = r.err]
       IN  svc' = [(IF r.at = "return" THEN Returns(k, f) ELSE GoesOn(k, f))
                     EXCEPT !.nops = @ + 1]
    /\ UNCHANGED <<channelVars, ws, pm>>

\* call k of CreateAdvancedFuturesOrder gets the answer to the request it
\* waits for (ok: the request succeeded): the leverage request, the order
\* request, then InsertOne of the document built when the order was placed
CreateAdvancedFuturesOrder_Answered(k, ok) ==
    LET f == svc.run[k] IN
    /\ f.op = "CreateAdvancedFuturesOrder"
    /\ \/ /\ f.pc \in {"leverage", "place"}
          /\ LET r == Client_CreateAdvancedFuturesOrder(svc.exch, f.req, f.pc, ok)
                 g == Absorb(f, r)
             IN  svc' = [(IF r.err # "" THEN Returns(k, [g EXCEPT !.err = r.err])
                          ELSE IF r.at = "return"
                          THEN GoesOn(k, Stamped([g EXCEPT !.pc = "insert"]))
                          ELSE GoesOn(k, [g EXCEPT !.pc = r.at]))
                           EXCEPT !.exch = r.ex]
       \/ /\ f.pc = "insert"
          /\ svc' = IF ok
                    THEN [Returns(k, f) EXCEPT
                            !.orders = Append(@, AdvancedFuturesOrder(f.req, f.orderID,
                                                                      f.status, f.stamp))]
                    ELSE Returns(k, [f EXCEPT !.err = "failed to save order to database",
                                              !.dbFailed = TRUE])
    /\ UNCHANGED <<channelVars, ws, pm>>

\* TradingService.CreateFuturesOrder is called
TradingService_CreateFuturesOrder(req) ==
    /\ CanBegin(1)
    /\ LET k == FreeCall
           r == Client_CreateFuturesOrder(svc.exch, req, "enter", TRUE)
           f == [NoOperation EXCEPT !.op = "CreateFuturesOrder", !.req = req, !.pc = r.at]
       IN  svc' = [GoesOn(k, f) EXCEPT !.nops = @ + 1]
    /\ UNCHANGED <<channelVars, ws, pm>>

\* call k of CreateFuturesOrder gets the answer to the request it waits for
CreateFuturesOrder_Answered(k, ok) ==
    LET f == svc.run[k] IN
    /\ f.op = "CreateFuturesOrder"
    /\ \/ /\ f.pc \in {"leverage", "place"}
          /\ LET r == Client_CreateFuturesOrder(svc.exch, f.req, f.pc, ok)
                 g == Absorb(f, r)
             IN  svc' = [(IF r.err # "" THEN Returns(k, [g EXCEPT !.err = r.err])
                          ELSE IF r.at = "return"
                          THEN GoesOn(k, Stamped([g EXCEPT !.pc = "insert"]))
                          ELSE GoesOn(k, [g EXCEPT !.pc = r.at]))
                           EXCEPT !.exch = r.ex]
       \/ /\ f.pc = "insert"
          /\ svc' = IF ok
                    THEN [Returns(k, f) EXCEPT
                            !.orders = Append(@, FuturesOrder(f.req, f.orderID, f.status,
                                                              f.stamp))]
                    ELSE Returns(k, [f EXCEPT !.err = "failed to save order to database",
                                              !.dbFailed = TRUE])
    /\ UNCHANGED <<channelVars, ws, pm>>

\* Client.ModifyFuturesOrder: no request is made, the error is returned
Client_ModifyFuturesOrder(req) ==
    "order modification requires direct HTTP implementation with proper signing"

\* a ModifyFuturesOrder that gives up when the exchange modification fails
UpdatesDatabaseOnSuccess(err) == err = ""

\* `if err != nil { }`: the database is updated whatever the exchange said
UpdatesDatabase(err) == TRUE

\* the filter of ModifyFuturesOrder: the field it matches and the value
ModifyFilter(req) ==
    IF req.orderID > 0 THEN [field |-> "binance_order_id", value |-> req.orderID]
    ELSE IF req.clientOrderID # "" THEN [field |-> "client_order_id", value |-> req.clientOrderID]
    ELSE [field |-> "", value |-> 0]

\* whether a stored order matches the filter
MatchesFilter(order, f) ==
    \/ f.field = "binance_order_id" /\ order.binanceOrderID = f.value
    \/ f.field = "client_order_id" /\ order.clientOrderID = f.value

\* FindOneAndUpdate picks the first document that matches, 0 when none does
FindOne(orders, f) ==
    IF \E i \in DOMAIN orders : MatchesFilter(orders[i], f)
    THEN CHOOSE i \in DOMAIN orders :
           /\ MatchesFilter(orders[i], f)
           /\ \A j \in 1..(i - 1) : ~MatchesFilter(orders[j], f)
    ELSE 0

\* the $set of ModifyFuturesOrder applied to a stored order at time t
UpdateData(order, req, t) ==
    [order EXCEPT !.updatedAt = t,
                  !.quantity = IF req.quantity > 0 THEN req.quantity ELSE @,
                  !.price = IF req.price > 0 THEN req.price ELSE @,
                  !.stopPrice = IF req.stopPrice > 0 THEN req.stopPrice ELSE @]

\* TradingService.ModifyFuturesOrder is called: the client's error at once
\* and discarded, the filter or the error for a request without identifier,
\* then the update with the time.Now() of this moment, up to FindOneAndUpdate
TradingService_ModifyFuturesOrder(req) ==
    /\ CanBegin(0)
    /\ LET k == FreeCall
           exchErr == Client_ModifyFuturesOrder(req)
           f == [NoOperation EXCEPT !.op = "ModifyFuturesOrder", !.req = req,
                                    !.exchErr = exchErr]
       IN  svc' =
             [(IF ~UpdatesDatabase(exchErr)
               THEN Returns(k, [f EXCEPT !.err = "failed to modify order"])
               ELSE IF ModifyFilter(req).field = ""
               THEN Returns(k, [f EXCEPT !.err = "either orderID or clientOrderID must be provided"])
               ELSE GoesOn(k, Stamped([f EXCEPT !.pc = "update"])))
                EXCEPT !.nops = @ + 1]
    /\ UNCHANGED <<channelVars, ws, pm>>

\* call k of ModifyFuturesOrder gets the answer to its FindOneAndUpdate (dbOk:
\* the database carries it out): the first order that matches the filter now
\* gets the update built before the call, or the call returns the error
ModifyFuturesOrder_Answered(k, dbOk) ==
    LET f == svc.run[k]
        n == FindOne(svc.orders, ModifyFilter(f.req))
    IN
    /\ f.op = "ModifyFuturesOrder"
    /\ f.pc = "update"
    /\ svc' = IF ~dbOk
              THEN Returns(k, [f EXCEPT !.err = "failed to update order", !.dbFailed = TRUE])
              ELSE IF n = 0
              THEN Returns(k, [f EXCEPT !.err = "failed to update order"])
              ELSE [Returns(k, f) EXCEPT !.orders[n] = UpdateData(@, f.req, f.stamp)]
    /\ UNCHANGED <<channelVars, ws, pm>>

\* the loop of Client.CreateBatchOrders after a stretch r of the call of
\* CreateAdvancedFuturesOrder for request f.i: when that call has returned,
\* its response is appended or its error counted and the next request is
\* taken, up to the next blocking call; after the last request the method
\* returns, with an error only when every order failed
RECURSIVE Client_CreateBatchOrders(_, _, _)
Client_CreateBatchOrders(ex, f, r) ==
    IF r.at # "return"
    THEN [f EXCEPT !.pc = r.at]
    ELSE LET g == [f EXCEPT
                     !.i = @ + 1,
                     !.responses = IF r.err = ""
                                   THEN Append(@, [orderID |-> r.orderID, status |-> r.status])
                                   ELSE @,
                     !.errors = IF r.err = "" THEN @ ELSE @ + 1]
         IN  IF g.i <= Len(g.req)
             THEN Client_CreateBatchOrders(ex, g,
                      Client_CreateAdvancedFuturesOrder(ex, g.req[g.i], "enter", TRUE))
             ELSE IF g.errors > 0 /\ Len(g.responses) = 0
             THEN [g EXCEPT !.pc = "return", !.exchErr = "all orders failed",
                            !.err = "failed to create batch orders"]
             ELSE IF Len(g.responses) = 0
             THEN [g EXCEPT !.pc = "return", !.exchErr = ""]
             ELSE [g EXCEPT !.pc = "insert", !.i = 1, !.exchErr = ""]

\* the document CreateBatchOrders inserts for response i: built from request
\* i, without the client order id
BatchFuturesOrder(reqs, responses, i, t) ==
    [AdvancedFuturesOrder(reqs[i], responses[i].orderID, responses[i].status, t)
       EXCEPT !.clientOrderID = ""]

\* TradingService.CreateBatchOrders is called: up to the first request of the
\* client, or to a return without one; for an empty list the client returns
\* no response and no error at once
TradingService_CreateBatchOrders(reqs) ==
    /\ CanBegin(Len(reqs))
    /\ LET k == FreeCall
           f == [NoOperation EXCEPT !.op = "CreateBatchOrders", !.req = reqs, !.i = 1]
           g == IF Len(reqs) = 0
                THEN [f EXCEPT !.pc = "return"]
                ELSE Client_CreateBatchOrders(svc.exch, f,
                         Client_CreateAdvancedFuturesOrder(svc.exch, reqs[1], "enter", TRUE))
       IN  svc' = [(IF g.pc = "return" THEN Returns(k, g) ELSE GoesOn(k, g))
                     EXCEPT !.nops = @ + 1]
    /\ UNCHANGED <<channelVars, ws, pm>>

\* call k of CreateBatchOrders gets the answer to the request it waits for:
\* a leverage or order request of the order it is at, or the InsertOne of a
\* response, whose failure is skipped
CreateBatchOrders_Answered(k, ok) ==
    LET f == svc.run[k] IN
    /\ f.op = "CreateBatchOrders"
    /\ \/ /\ f.pc \in {"leverage", "place"}
          /\ LET r == Client_CreateAdvancedFuturesOrder(svc.exch, f.req[f.i], f.pc, ok)
                 g == Client_CreateBatchOrders(r.ex,
                          [f EXCEPT !.sent = @ + r.sent, !.levSet = @ \/ r.levSet], r)
             IN  svc' = [(IF g.pc = "return" THEN Returns(k, g) ELSE GoesOn(k, Stamped(g)))
                           EXCEPT !.exch = r.ex]
       \/ /\ f.pc = "insert"
          /\ LET g == [f EXCEPT !.i = @ + 1, !.dbFailed = @ \/ ~ok]
                 s == IF g.i > Len(f.responses) \/ g.i > Len(f.req)
                      THEN Returns(k, g) ELSE GoesOn(k, Stamped(g))
             IN  svc' = IF ok
                        THEN [s EXCEPT
                                !.orders = Append(@, BatchFuturesOrder(f.req, f.responses,
                                                                       f.i, f.stamp))]
                        ELSE s
    /\ UNCHANGED <<channelVars, ws, pm>>

\* the members of a sequence
Range(seq) == {seq[i] : i \in DOMAIN seq}

\* the i-th cancel request of Client.CancelBatchOrders: one per order id, then
\* one per client order id; a failed cancel is skipped and no error returned
Client_CancelBatchOrders(ex, symbol, orderIDs, clientOrderIDs, i, ok) ==
    IF i <= Len(orderIDs)
    THEN CancelOrder(ex, symbol, "orderID", orderIDs[i], ok)
    ELSE CancelOrder(ex, symbol, "clientOrderID", clientOrderIDs[i - Len(orderIDs)], ok)

\* the filter of TradingService.CancelBatchOrders: the symbol, and each id
\* list only when it is not empty; a document stored with an empty client
\* order id has no client_order_id field (omitempty) and $in matches none
CancelFilter(order, symbol, orderIDs, clientOrderIDs) ==
    /\ order.symbol = symbol
    /\ Len(orderIDs) > 0 => order.binanceOrderID \in Range(orderIDs)
    /\ Len(clientOrderIDs) > 0 =>
          (order.clientOrderID # "" /\ order.clientOrderID \in Range(clientOrderIDs))

\* TradingService.CancelBatchOrders as entered from caller op: up to its first
\* cancel request, or to UpdateMany when there is no id
CancelBatchOrders(op, symbol, orderIDs, clientOrderIDs) ==
    [NoOperation EXCEPT
       !.op = op,
       !.req = [symbol |-> symbol, orderIDs |-> orderIDs, clientOrderIDs |-> clientOrderIDs],
       !.i = 1,
       !.pc = IF Len(orderIDs) + Len(clientOrderIDs) > 0 THEN "cancel" ELSE "update"]

\* TradingService.CancelBatchOrders is called
TradingService_CancelBatchOrders(symbol, orderIDs, clientOrderIDs) ==
    /\ CanBegin(0)
    /\ svc' = [GoesOn(FreeCall,
                      Stamped(CancelBatchOrders("TradingService.CancelBatchOrders", symbol,
                                                orderIDs, clientOrderIDs)))
                 EXCEPT !.nops = @ + 1]
    /\ UNCHANGED <<channelVars, ws, pm>>

\* Handlers.CancelBatchOrders: 400 without a symbol, else the service is
\* called with nil id lists
Handlers_CancelBatchOrders(symbol) ==
    /\ CanBegin(0)
    /\ LET k == FreeCall
           f == CancelBatchOrders("Handlers.CancelBatchOrders", symbol, <<>>, <<>>)
       IN  svc' = [(IF symbol = ""
                    THEN Returns(k, [f EXCEPT !.err = "symbol parameter is required"])
                    ELSE GoesOn(k, Stamped(f)))
                     EXCEPT !.nops = @ + 1]
    /\ UNCHANGED <<channelVars, ws, pm>>

\* call k of CancelBatchOrders gets the answer to the request it waits for: a
\* cancel request (ok: the exchange carried it out), or the UpdateMany of the
\* orders the filter matches (ok: the update succeeds)
CancelBatchOrders_Answered(k, ok) ==
    LET f == svc.run[k]
        q == f.req
    IN
    /\ f.op \in {"TradingService.CancelBatchOrders", "Handlers.CancelBatchOrders"}
    /\ \/ /\ f.pc = "cancel"
          /\ svc' = [GoesOn(k, Stamped([f EXCEPT
                                  !.sent = @ + 1, !.i = @ + 1,
                                  !.pc = IF f.i + 1 > Len(q.orderIDs) + Len(q.clientOrderIDs)
                                         THEN "update" ELSE "cancel"]))
                       EXCEPT !.exch = Client_CancelBatchOrders(@, q.symbol, q.orderIDs,
                                                                q.clientOrderIDs, f.i, ok)]
       \/ /\ f.pc = "update"
          /\ LET hit == {j \in DOMAIN svc.orders :
                            CancelFilter(svc.orders[j], q.symbol, q.orderIDs, q.clientOrderIDs)}
                 changed == Cardinality({j \in hit : svc.orders[j].status # "CANCELED"})
             IN  svc' =
                   IF ok
                   THEN [Returns(k, [f EXCEPT !.changed = changed]) EXCEPT
                           !.orders = [j \in DOMAIN @ |->
                                         IF j \in hit
                                         THEN [@[j] EXCEPT !.status = "CANCELED",
                                                           !.updatedAt = f.stamp]
                                         ELSE @[j]]]
                   ELSE Returns(k, [f EXCEPT !.err = "update failed", !.dbFailed = TRUE])
    /\ UNCHANGED <<channelVars, ws, pm>>

\* a trade on the exchange, outside the service: the position of a symbol is
\* opened, changed or closed (sizes in thousandths, negative for short)
ExchangeTrade(symbol, size) ==
    /\ svc.exch.positions[symbol] # size
    /\ svc' = [svc EXCEPT !.exch.positions[symbol] = size, !.last = NoOperation]
    /\ UNCHANGED <<channelVars, ws, pm>>

\* Client.CloseFuturesPosition is called: the opposite side is taken and the
\* call waits in the request of a reduce-only MARKET order of that side
Client_CloseFuturesPosition(symbol, side, quantity) ==
    /\ CanBegin(0)
    /\ LET oppositeSide == IF side = "BUY" THEN "SELL" ELSE "BUY"
           f == [NoOperation EXCEPT
                   !.op = "CloseFuturesPosition", !.pc = "place",
                   !.req = [symbol |-> symbol, side |-> oppositeSide, orderType |-> "MARKET",
                            quantity |-> quantity, reduceOnly |-> TRUE]]
       IN  svc' = [GoesOn(FreeCall, f) EXCEPT !.nops = @ + 1]
    /\ UNCHANGED <<channelVars, ws, pm>>

\* call k of CloseFuturesPosition gets the answer to its order request (ok:
\* the exchange took the order) and returns the order or the error; what the
\* order's fill does to the position is the exchange's act, ExchangeTrade
CloseFuturesPosition_Answered(k, ok) ==
    LET f == svc.run[k]
        ex == CreateOrder(svc.exch, f.req, "MARKET", 0, ok)
        g == [f EXCEPT !.sent = 1]
    IN
    /\ f.op = "CloseFuturesPosition"
    /\ f.pc = "place"
    /\ svc' = [(IF ok
                THEN Returns(k, [g EXCEPT !.orderID = Len(ex.orders), !.status = "NEW"])
                ELSE Returns(k, [g EXCEPT !.err = "failed to close futures position",
                                          !.exchErr = "failed to close futures position"]))
                 EXCEPT !.exch = ex]
    /\ UNCHANGED <<channelVars, ws, pm>>

\* GetFuturesPositions: the position risk of every symbol, flat ones included
GetFuturesPositions(ex) ==
    <<[symbol |-> "BTCUSDT", positionSide |-> "BOTH", positionAmt |-> ex.positions["BTCUSDT"]],
      [symbol |-> "ETHUSDT", positionSide |-> "BOTH", positionAmt |-> ex.positions["ETHUSDT"]]>>

\* UpdateOne with upsert on {symbol, type: FUTURES}: the first document that
\* matches is set, and without a match the document is inserted
Matching(positions, doc) ==
    IF \E i \in DOMAIN positions :
           positions[i].symbol = doc.symbol /\ positions[i].type = "FUTURES"
    THEN CHOOSE i \in DOMAIN positions :
            /\ positions[i].symbol = doc.symbol /\ positions[i].type = "FUTURES"
            /\ \A j \in 1..(i - 1) :
                  ~(positions[j].symbol = doc.symbol /\ positions[j].type = "FUTURES")
    ELSE 0

\* UpdateOne with SetUpsert(true), when the server has evaluated the filter:
\* the first document that matches is set; when none matches the server goes
\* on to insert one, which it does as a step of its own: the index on
\* {symbol, type} is not unique, and nothing stops two overlapping upserts
\* that both found no match from both inserting
Upsert(positions, doc) ==
    IF Matching(positions, doc) = 0 THEN positions
    ELSE [positions EXCEPT ![Matching(positions, doc)] = doc]

\* the loop of SyncPositionsFromBinance from entry i on: flat positions are
\* skipped; the index of the next entry to upsert, 0 when the loop is over
RECURSIVE SyncFrom(_, _)
SyncFrom(bps, i) ==
    IF i > Len(bps) THEN 0
    ELSE IF bps[i].positionAmt = 0 THEN SyncFrom(bps, i + 1)
    ELSE i

\* TradingService.SyncPositionsFromBinance is called and GetFuturesPositions
\* answers (fetchOk: with the positions): up to the first UpdateOne, or to the
\* return when every position is flat
SyncPositionsFromBinance(fetchOk) ==
    /\ CanBegin(0)
    /\ LET k == FreeCall
           bps == GetFuturesPositions(svc.exch)
           f == [NoOperation EXCEPT !.op = "SyncPositionsFromBinance"]
           g == [f EXCEPT !.bps = bps, !.i = SyncFrom(bps, 1), !.pc = "upsert"]
       IN  svc' = [(IF ~fetchOk
                    THEN Returns(k, [f EXCEPT !.err = "failed to get positions from Binance"])
                    ELSE IF g.i = 0 THEN Returns(k, g)
                    ELSE GoesOn(k, Stamped(g)))
                     EXCEPT !.nops = @ + 1]
    /\ UNCHANGED <<channelVars, ws, pm>>

\* the document SyncPositionsFromBinance writes for entry f.i of call f
SyncDocument(f) ==
    [symbol |-> f.bps[f.i].symbol, type |-> "FUTURES",
     side |-> f.bps[f.i].positionSide,
     quantity |-> f.bps[f.i].positionAmt,
     updatedAt |-> f.stamp]

\* the UpdateOne of call k for entry f.i reaches the server (ok: the filter is
\* evaluated; a document that matches is set and the loop goes on, without a
\* match the insert is still to come); a failure ends the loop with an error
SyncPositionsFromBinance_Answered(k, ok) ==
    LET f == svc.run[k] IN
    /\ f.op = "SyncPositionsFromBinance"
    /\ f.pc = "upsert"
    /\ LET g == [f EXCEPT !.i = SyncFrom(f.bps, f.i + 1)]
       IN  svc' =
             IF ~ok
             THEN Returns(k, [f EXCEPT !.err = "failed to update position",
                                       !.dbFailed = TRUE])
             ELSE IF Matching(svc.positions, SyncDocument(f)) = 0
             THEN GoesOn(k, [f EXCEPT !.pc = "insert"])
             ELSE [(IF g.i = 0 THEN Returns(k, g) ELSE GoesOn(k, Stamped(g))) EXCEPT
                     !.positions = Upsert(@, SyncDocument(f))]
    /\ UNCHANGED <<channelVars, ws, pm>>

\* the upsert of call k that found no match inserts its document, and the
\* loop goes on
SyncPositionsFromBinance_Inserted(k) ==
    LET f == svc.run[k] IN
    /\ f.op = "SyncPositionsFromBinance"
    /\ f.pc = "insert"
    /\ LET g == [f EXCEPT !.i = SyncFrom(f.bps, f.i + 1), !.pc = "upsert"]
       IN  svc' = [(IF g.i = 0 THEN Returns(k, g) ELSE GoesOn(k, Stamped(g))) EXCEPT
                     !.positions = Append(@, SyncDocument(f))]
    /\ UNCHANGED <<channelVars, ws, pm>>

(* Stand-alone evaluation of buildSignaturePayload.                        *)
(***************************************************************************)
NotBuilt == [built |-> FALSE, payload |-> <<>>]

BuildPayload ==
    /\ ~pout.built
    /\ \E order \in Perms(DOMAIN pin) :
          pout' = [built |-> TRUE, payload |-> buildSignaturePayload(pin, order)]
    /\ UNCHANGED <<cfg, now, conn, inbox, nrecv, pc, call, sent, out, ret, ncalls, pin, closeRet, gatewayVars>>

(***************************************************************************)
(* Inputs.                                                                 *)
(***************************************************************************)
\* 1700000000000
T_1700000000000 == Wide(FALSE, 1700, 0)
\* 1700000000123
T_1700000000123 == Wide(FALSE, 1700, 123)

\* the values a key takes in the enumerated mappings
ValuesOf(k) ==
    CASE k = K_apiKey -> {VString(S_abc), VString(<<>>)}
      [] k = K_side -> {VString(S_BUY), VNil}
      [] k = K_signature -> {VString(S_old), VInt(5)}
      [] k = K_symbol -> {VString(S_X), VBool(TRUE)}
      [] k = K_timestamp -> {VInt64(T_1700000000000), VInt(-7)}
      [] k = K_price -> {VFloat(FALSE, 0, <<5>>), VFloat(TRUE, 12, <<>>)}
      [] k = K_reduceOnly -> {VBool(FALSE), VInt64(Wide(TRUE, 3, 40))}
      [] OTHER -> {VString(S_X), VFloat(FALSE, 1, <<0, 2, 5>>)}

PayloadKeys == {K_apiKey, K_side, K_signature, K_symbol, K_timestamp, K_price, K_s}

\* every mapping over at most MaxKeys of the keys
PayloadInputs ==
    UNION {{m \in [D -> UNION {ValuesOf(k) : k \in D}] : \A k \in D : m[k] \in ValuesOf(k)} :
             D \in {D \in SUBSET PayloadKeys : Cardinality(D) <= MaxKeys}}

Map1(k1, v1) == MapSet(EmptyMap, k1, v1)
Map2(k1, v1, k2, v2) == MapSet(Map1(k1, v1), k2, v2)
Map3(k1, v1, k2, v2, k3, v3) == MapSet(Map2(k1, v1, k2, v2), k3, v3)

\* the mappings callers pass to the channel
P_order == Map2(K_symbol, VString(S_X), K_side, VString(S_BUY))
P_own == Map3(K_symbol, VString(S_X), K_apiKey, VString(S_ck), K_timestamp, VInt64(T_1700000000123))
P_presigned == Map2(K_symbol, VString(S_X), K_signature, VString(S_old))
P_presignedFirst == Map2(K_zz, VBool(TRUE), K_signature, VString(S_old))
P_presignedLast == Map2(K_reduceOnly, VBool(FALSE), K_signature, VString(S_old))
P_typed == Map2(K_price, VFloat(FALSE, 0, <<5>>), K_s, VInt(-7))

SignInputs ==
    {[nil |-> TRUE, m |-> EmptyMap], [nil |-> FALSE, m |-> EmptyMap]}
        \cup {[nil |-> FALSE, m |-> m] :
                m \in {P_order, P_own, P_presigned, P_presignedFirst, P_presignedLast, P_typed}}

\* what the callers of the channel under test pass
UnsignedInput == [nil |-> FALSE, m |-> P_order]
SignedInput == [nil |-> TRUE, m |-> EmptyMap]

Bytes(n, b) == [i \in 1..n |-> b]

\* seeds ed25519.GenerateKey may draw: every first and last byte out of a few,
\* whitespace bytes among them
GeneratedSeeds ==
    {<<a>> \o Bytes(SeedSize - 2, 65) \o <<b>> : a \in {0, 32}, b \in {9, 65}}
        \cup {Bytes(SeedSize - 2, 65) \o <<194, 160>>,
              <<227, 128, 128>> \o Bytes(SeedSize - 3, 65)}

F_missing == KeyFile(FALSE, "none", <<>>, <<>>)
F_tenBytes == KeyFile(TRUE, "none", <<>>, Bytes(10, 7))
F_seed == KeyFile(TRUE, "none", <<>>, Bytes(SeedSize, 65))
F_seedNewline == KeyFile(TRUE, "none", <<>>, Bytes(SeedSize, 66) \o <<10>>)
F_raw == KeyFile(TRUE, "none", <<>>, Bytes(SeedSize, 67) \o Bytes(PrivateKeySize - SeedSize, 68))
F_pem == KeyFile(TRUE, "ed25519", Bytes(SeedSize, 69), Bytes(119, 45))
F_pemOther == KeyFile(TRUE, "other", <<>>, Bytes(100, 45))
F_nbspSeed == KeyFile(TRUE, "none", <<>>, <<194, 160>> \o Bytes(SeedSize, 70))

KeyFiles ==
    {F_missing, F_tenBytes, F_seed, F_seedNewline, F_raw, F_pem, F_pemOther, F_nbspSeed}

Fetches == {FetchFailed, FetchOk(Wide(FALSE, 0, 0)), FetchOk(T_1700000000123)}

\* outcomes of the server-time fetch around the second boundaries
TimeFetches == Fetches \cup {FetchOk(WideOf(1000)), FetchOk(WideOf(1999))}

\* mappings with and without a caller's own apiKey and timestamp
StampInputs ==
    {[nil |-> TRUE, m |-> EmptyMap], [nil |-> FALSE, m |-> EmptyMap],
     [nil |-> FALSE, m |-> P_own],
     [nil |-> FALSE, m |-> Map2(K_symbol, VString(S_X), K_apiKey, VString(S_ck))],
     [nil |-> FALSE, m |-> Map2(K_side, VString(S_BUY), K_timestamp, VInt64(T_1700000000123))]}

\* first readings of the local clock: the epoch, and StartMs
Clocks == {0, StartMs}

\* the caller numbers its calls: the n-th call on a channel has id n
IdOfCall(n) == n
OutShapes == {"nil", "any", "string"}

R_object == [shape |-> "object", v |-> 1]
E_rejected == [present |-> TRUE, code |-> -1022, msg |-> "Signature for this request is not valid."]

\* frames the peer may deliver
PeerFrames ==
    {Malformed,
     WSResponse(1, StatusOK, R_object, NoError),
     WSResponse(2, StatusOK, R_object, NoError),
     WSResponse(1, StatusOK, NoResult, E_rejected),
     WSResponse(1, 400, R_object, E_rejected)}

LastClock == StartMs + MaxTicks * TickMs

\* the deadlines a caller's context may carry at time t (0: none)
Deadlines(t) == {0} \cup {d \in {t, t + TickMs, t + 2 * TickMs} : d <= LastClock}

(***************************************************************************)
(* Specifications.                                                         *)
(***************************************************************************)
InitChannelAt(t) ==
    /\ now = t
    /\ conn = NewConn
    /\ inbox = <<>>
    /\ nrecv = 0
    /\ pc = "idle"
    /\ call = NoCall
    /\ sent = <<>>
    /\ out = OutZero
    /\ ret = RetNil
    /\ ncalls = 0
    /\ closeRet = "none"
    /\ ws = NewWebSocketClient
    /\ pm = NoPositionMode
    /\ svc = NewService

InitChannel == InitChannelAt(StartMs)

\* the channel under every kind of peer behaviour
Init ==
    /\ cfg = [apiKey |-> S_abc, keyFile |-> F_seed]
    /\ InitChannel
    /\ pin = EmptyMap
    /\ pout = NotBuilt

Next ==
    \/ \E d \in Deadlines(now), o \in OutShapes :
          SendRequest(IdOfCall(ncalls + 1), "account.balance",
                      UnsignedInput.nil, UnsignedInput.m, d, o)
    \/ \E d \in Deadlines(now), o \in OutShapes :
          SendSignedRequest(IdOfCall(ncalls + 1), "account.status",
                            SignedInput.nil, SignedInput.m, d, o)
    \/ ServerTimeFetched(FetchFailed)
    \/ WriteOk
    \/ WriteFail
    \/ ReadMsg
    \/ ReadFail
    \/ \E err \in BOOLEAN : Close(err)
    \/ Cancel
    \/ \E m \in PeerFrames : PeerSend(m, MaxDelivered)
    \/ Tick

Spec == Init /\ [][Next]_vars

\* the channel without deadlines: what a call makes of whatever the peer delivers
ReplyNext ==
    \/ \E o \in OutShapes :
          SendRequest(IdOfCall(ncalls + 1), "account.balance",
                      UnsignedInput.nil, UnsignedInput.m, 0, o)
    \/ \E o \in OutShapes :
          SendSignedRequest(IdOfCall(ncalls + 1), "account.status",
                            SignedInput.nil, SignedInput.m, 0, o)
    \/ ServerTimeFetched(FetchFailed)
    \/ WriteOk
    \/ WriteFail
    \/ ReadMsg
    \/ ReadFail
    \/ \E err \in BOOLEAN : Close(err)
    \/ \E m \in PeerFrames : PeerSend(m, MaxDelivered)

ReplySpec == Init /\ [][ReplyNext]_vars

\* the channel of a client made by NewWSAPIClient or of a zero client, closed
\* at any point between calls and any number of times
CloseInit ==
    /\ cfg = [apiKey |-> S_abc, keyFile |-> F_seed]
    /\ now = StartMs
    /\ conn \in {NewConn, ZeroConn}
    /\ inbox = <<>>
    /\ nrecv = 0
    /\ pc = "idle"
    /\ call = NoCall
    /\ sent = <<>>
    /\ out = OutZero
    /\ ret = RetNil
    /\ ncalls = 0
    /\ closeRet = "none"
    /\ ws = NewWebSocketClient
    /\ pm = NoPositionMode
    /\ svc = NewService
    /\ pin = EmptyMap
    /\ pout = NotBuilt

CloseNext ==
    \/ \E o \in OutShapes :
          SendRequest(IdOfCall(ncalls + 1), "account.balance",
                      UnsignedInput.nil, UnsignedInput.m, 0, o)
    \/ \E o \in OutShapes :
          SendSignedRequest(IdOfCall(ncalls + 1), "account.status",
                            SignedInput.nil, SignedInput.m, 0, o)
    \/ SendRequestOnNil
    \/ ServerTimeFetched(FetchFailed)
    \/ WriteOk
    \/ WriteFail
    \/ ReadMsg
    \/ ReadFail
    \/ \E err \in BOOLEAN : Close(err)
    \/ \E m \in PeerFrames : PeerSend(m, MaxDelivered)

CloseSpec == CloseInit /\ [][CloseNext]_vars

\* the channel against the clock: deadlines, cancellation, a peer that answers
\* the first call or stays silent
TimedNext ==
    \/ \E d \in Deadlines(now) :
          SendRequest(IdOfCall(ncalls + 1), "account.balance",
                      UnsignedInput.nil, UnsignedInput.m, d, "any")
    \/ \E d \in Deadlines(now) :
          SendSignedRequest(IdOfCall(ncalls + 1), "account.status",
                            SignedInput.nil, SignedInput.m, d, "any")
    \/ ServerTimeFetched(FetchFailed)
    \/ WriteOk
    \/ WriteFail
    \/ ReadMsg
    \/ ReadFail
    \/ \E err \in BOOLEAN : Close(err)
    \/ Cancel
    \/ PeerSend(WSResponse(1, StatusOK, R_object, NoError), MaxDelivered)
    \/ Tick

TimedSpec == Init /\ [][TimedNext]_vars

\* the clock advances; a read or write that the connection already refuses
\* (closed, failed before, deadline passed) returns; a frame that has arrived
\* is read.  The peer owes no frame and the network owes no progress.
WriteDue ==
    conn.closed \/ conn.writeErr # "" \/ (conn.writeDeadline # 0 /\ now >= conn.writeDeadline)
ReadDue ==
    conn.closed \/ conn.readErr # "" \/ (conn.readDeadline # 0 /\ now >= conn.readDeadline)

Fairness ==
    /\ WF_vars(Tick)
    /\ WF_vars(WriteDue /\ WriteFail)
    /\ WF_vars(ReadDue /\ ReadFail)
    /\ WF_vars(ReadMsg)

LiveSpec == TimedSpec /\ Fairness

\* signing under every key file and a wide choice of parameter mappings
SignInit ==
    /\ cfg \in {[apiKey |-> S_abc, keyFile |-> f] : f \in KeyFiles}
    /\ InitChannel
    /\ pin = EmptyMap
    /\ pout = NotBuilt

SignNext ==
    \/ \E p \in SignInputs :
          SendSignedRequest(IdOfCall(ncalls + 1), "account.status", p.nil, p.m, 0, "any")
    \/ \E f \in Fetches : ServerTimeFetched(f)
    \/ \E p \in SignInputs :
          SendRequest(IdOfCall(ncalls + 1), "account.status", p.nil, p.m, 0, "any")
    \/ WriteOk
    \/ WriteFail
    \/ PeerSend(WSResponse(1, StatusOK, R_object, NoError), 1)
    \/ ReadMsg
    \/ Tick

SignSpec == SignInit /\ [][SignNext]_vars

\* the injection of apiKey and timestamp, from the epoch on and at second
\* boundaries of the server time and of the local clock
StampInit ==
    /\ cfg = [apiKey |-> S_abc, keyFile |-> F_seed]
    /\ \E t \in Clocks : InitChannelAt(t)
    /\ pin = EmptyMap
    /\ pout = NotBuilt

StampNext ==
    \/ \E p \in StampInputs :
          SendSignedRequest(IdOfCall(ncalls + 1), "account.status", p.nil, p.m, 0, "any")
    \/ \E f \in TimeFetches : ServerTimeFetched(f)
    \/ WriteOk
    \/ WriteFail
    \/ Tick

StampSpec == StampInit /\ [][StampNext]_vars

\* the user-data stream and its owner
StreamNext ==
    \/ \E ok \in BOOLEAN : Connect(ok)
    \/ KeepAliveStop
    \/ KeepAliveTick
    \/ KeepAlivePingReturns
    \/ ReaderSelect
    \/ \E d \in BOOLEAN : ReaderReadFrame(d, MaxDelivered)
    \/ ReaderHandleFrame
    \/ ReaderReadError
    \/ Consume
    \/ StreamClose
    \/ \E err \in BOOLEAN : StreamCloseConn(err)
    \/ CancelStream

StreamSpec == Init /\ [][StreamNext]_vars

\* the goroutines of the stream are scheduled, a select that is reached again
\* and again with the stop case ready takes it (Go chooses among the ready
\* cases at random), a read on a closed connection returns, a keep-alive
\* request under a cancelled context returns, and a Close that has closed
\* stopChan goes on; the peer owes no frame, the exchange owes no answer to a
\* keep-alive request, and the owner owes no call: nothing makes Connect
\* happen or a dial succeed
StreamFairness ==
    /\ SF_vars(KeepAliveStop)
    /\ WF_vars(ws.ctxDone /\ KeepAlivePingReturns)
    /\ WF_vars(ReaderSelect)
    /\ WF_vars(ReaderHandleFrame)
    /\ WF_vars(ws.conn = "closed" /\ ReaderReadError)
    /\ WF_vars(\E err \in BOOLEAN : StreamCloseConn(err))

StreamLiveSpec == StreamSpec /\ StreamFairness

\* the stream of an owner that calls Close once
StopNext ==
    \/ \E ok \in BOOLEAN : Connect(ok)
    \/ KeepAliveStop
    \/ KeepAliveTick
    \/ KeepAlivePingReturns
    \/ ReaderSelect
    \/ \E d \in BOOLEAN : ReaderReadFrame(d, MaxDelivered)
    \/ ReaderHandleFrame
    \/ ReaderReadError
    \/ Consume
    \/ (ws.stopChan = "open" /\ StreamClose)
    \/ \E err \in BOOLEAN : StreamCloseConn(err)
    \/ CancelStream

StopLiveSpec == Init /\ [][StopNext]_vars /\ StreamFairness

\* the buffer of the stream under a long run of frames and a slow consumer
BufferNext ==
    \/ Connect(TRUE)
    \/ ReaderSelect
    \/ \E d \in BOOLEAN : ReaderReadFrame(d, MaxFrames)
    \/ ReaderHandleFrame
    \/ ReaderReadError
    \/ Consume
    \/ StreamClose
    \/ \E err \in BOOLEAN : StreamCloseConn(err)

BufferSpec == Init /\ [][BufferNext]_vars

\* the position-mode endpoints under any sequence of requests
PositionModeNext ==
    \/ \E b \in PositionModeBodies, dbOk \in BOOLEAN : Handlers_SetPositionMode(b, dbOk)
    \/ Handlers_GetPositionMode

PositionModeSpec == Init /\ [][PositionModeNext]_vars

\* the advanced order requests tried
AdvancedOrderRequests ==
    {r \in [symbol : {"BTCUSDT"}, side : {"BUY"},
             orderType : {"LIMIT", "STOP_LIMIT", "ICEBERG"},
             quantity : {1}, price : {7}, stopPrice : {6}, leverage : {1, 5},
             clientOrderID : {"", "a"}] :
        /\ r.orderType = "LIMIT" => (r.leverage = 1 <=> r.clientOrderID = "a")
        /\ r.orderType = "STOP_LIMIT" => (r.leverage = 1 /\ r.clientOrderID = "")
        /\ r.orderType = "ICEBERG" => (r.leverage = 5 /\ r.clientOrderID = "")}

\* the plain order requests tried
FuturesOrderRequests ==
    {[symbol |-> "BTCUSDT", side |-> "BUY", orderType |-> "MARKET", quantity |-> 1,
      price |-> 7, leverage |-> 1],
     [symbol |-> "BTCUSDT", side |-> "BUY", orderType |-> "STOP", quantity |-> 1,
      price |-> 7, leverage |-> 5]}

\* the modification requests tried
\* without identifier; with both identifiers, of different orders, and
\* nothing to set; with the client order id and no stop price; and for an
\* order that is not stored
ModifyOrderRequests ==
    {[symbol |-> "BTCUSDT", orderID |-> 0, clientOrderID |-> "",
      quantity |-> 3, price |-> 4, stopPrice |-> 5],
     [symbol |-> "BTCUSDT", orderID |-> 1, clientOrderID |-> "a",
      quantity |-> 0, price |-> 0, stopPrice |-> 0],
     [symbol |-> "BTCUSDT", orderID |-> 0, clientOrderID |-> "a",
      quantity |-> 3, price |-> 4, stopPrice |-> 0],
     [symbol |-> "BTCUSDT", orderID |-> 3, clientOrderID |-> "",
      quantity |-> 0, price |-> 0, stopPrice |-> 5]}

\* single orders: created and modified by concurrent calls
OrderNext ==
    \/ \E req \in AdvancedOrderRequests : TradingService_CreateAdvancedFuturesOrder(req)
    \/ \E k \in 1..MaxOps, ok \in BOOLEAN : CreateAdvancedFuturesOrder_Answered(k, ok)
    \/ \E req \in FuturesOrderRequests : TradingService_CreateFuturesOrder(req)
    \/ \E k \in 1..MaxOps, ok \in BOOLEAN : CreateFuturesOrder_Answered(k, ok)
    \/ \E req \in ModifyOrderRequests : TradingService_ModifyFuturesOrder(req)
    \/ \E k \in 1..MaxOps, dbOk \in BOOLEAN : ModifyFuturesOrder_Answered(k, dbOk)
    \/ \E t \in 0..MaxClock : WallClock(t)

OrderSpec == Init /\ [][OrderNext]_vars

\* two orders that CreateAdvancedFuturesOrder placed and stored before the
\* service was started: the collection outlives the process
PlacedRequests ==
    <<[symbol |-> "BTCUSDT", side |-> "BUY", orderType |-> "STOP_LIMIT", quantity |-> 1,
       price |-> 7, stopPrice |-> 6, leverage |-> 1, clientOrderID |-> ""],
      [symbol |-> "BTCUSDT", side |-> "BUY", orderType |-> "LIMIT", quantity |-> 1,
       price |-> 7, stopPrice |-> 6, leverage |-> 1, clientOrderID |-> "a"]>>

ServiceWithOrders ==
    LET r1 == Client_CreateAdvancedFuturesOrder(NewExchange, PlacedRequests[1], "place", TRUE)
        r2 == Client_CreateAdvancedFuturesOrder(r1.ex, PlacedRequests[2], "place", TRUE)
    IN  [NewService EXCEPT
           !.exch = r2.ex,
           !.orders = <<AdvancedFuturesOrder(PlacedRequests[1], r1.orderID, r1.status, 0),
                        AdvancedFuturesOrder(PlacedRequests[2], r2.orderID, r2.status, 0)>>]

ModifyInit ==
    /\ cfg = [apiKey |-> S_abc, keyFile |-> F_seed]
    /\ now = StartMs
    /\ conn = NewConn
    /\ inbox = <<>>
    /\ nrecv = 0
    /\ pc = "idle"
    /\ call = NoCall
    /\ sent = <<>>
    /\ out = OutZero
    /\ ret = RetNil
    /\ ncalls = 0
    /\ closeRet = "none"
    /\ ws = NewWebSocketClient
    /\ pm = NoPositionMode
    /\ svc = ServiceWithOrders
    /\ pin = EmptyMap
    /\ pout = NotBuilt

\* stored orders modified by concurrent calls while the wall clock moves
ModifyNext ==
    \/ \E req \in ModifyOrderRequests : TradingService_ModifyFuturesOrder(req)
    \/ \E k \in 1..MaxOps, dbOk \in BOOLEAN : ModifyFuturesOrder_Answered(k, dbOk)
    \/ \E t \in 0..MaxClock : WallClock(t)

ModifySpec == ModifyInit /\ [][ModifyNext]_vars

\* the orders of a batch, and the batches tried
BatchOrders ==
    {r \in [symbol : Symbols, side : {"BUY"}, orderType : {"LIMIT", "ICEBERG"},
             quantity : {1}, price : {7}, stopPrice : {6}, leverage : {1, 5},
             clientOrderID : {"a"}] :
        r.leverage = 5 <=> r.symbol = "ETHUSDT"}

BatchOrderRequests ==
    {<<>>} \cup {<<a>> : a \in BatchOrders} \cup {<<a, b>> : a \in BatchOrders, b \in {c \in BatchOrders : c.orderType = "LIMIT"}}

\* the order ids and client order ids of the cancellations tried
CancelRequests ==
    {<<<<>>, <<>>>>, <<<<1>>, <<>>>>, <<<<1, 2>>, <<>>>>, <<<<>>, <<"a">>>>, <<<<1>>, <<"">>>>}

\* batches created, and cancelled by the service or through the handler, by
\* concurrent calls
BatchNext ==
    \/ \E reqs \in BatchOrderRequests : TradingService_CreateBatchOrders(reqs)
    \/ \E k \in 1..MaxOps, ok \in BOOLEAN : CreateBatchOrders_Answered(k, ok)
    \/ \E symbol \in Symbols, ids \in CancelRequests :
          TradingService_CancelBatchOrders(symbol, ids[1], ids[2])
    \/ \E symbol \in Symbols \cup {""} : Handlers_CancelBatchOrders(symbol)
    \/ \E k \in 1..MaxOps, ok \in BOOLEAN : CancelBatchOrders_Answered(k, ok)

BatchSpec == Init /\ [][BatchNext]_vars

\* positions traded on the exchange, closed through the client and synced
\* into the store by concurrent calls
PositionNext ==
    \/ \E symbol \in Symbols, size \in {-10, 0, 10} : ExchangeTrade(symbol, size)
    \/ \E fetchOk \in BOOLEAN : SyncPositionsFromBinance(fetchOk)
    \/ \E k \in 1..MaxOps, ok \in BOOLEAN : SyncPositionsFromBinance_Answered(k, ok)
    \/ \E k \in 1..MaxOps : SyncPositionsFromBinance_Inserted(k)
    \/ \E side \in {"BUY", "SELL"} : Client_CloseFuturesPosition("BTCUSDT", side, 10)
    \/ \E k \in 1..MaxOps, ok \in BOOLEAN : CloseFuturesPosition_Answered(k, ok)

PositionSpec == Init /\ [][PositionNext]_vars

\* concurrent invocations of GetAccountStatusWS and GetAccountBalanceWS
InvocationNext ==
    \/ \E i \in 1..MaxInvocations, m \in {"account.status", "account.balance"},
          ok \in BOOLEAN : AccountWS_Dial(i, m, ok)
    \/ \E i \in 1..MaxInvocations, keyOk \in BOOLEAN : AccountWS_Send(i, keyOk)
    \/ \E i \in 1..MaxInvocations, err \in {"", "write", "read", "status", "decode"} :
          AccountWS_Return(i, err)
    \/ \E i \in 1..MaxInvocations : AccountWS_Close(i)

InvocationSpec == Init /\ [][InvocationNext]_vars

\* what GetActiveAPICredentials may return at start-up
StoredCredentials ==
    {[found |-> FALSE, apiKey |-> <<>>, secret |-> FALSE],
     [found |-> TRUE, apiKey |-> S_ck, secret |-> TRUE],
     [found |-> TRUE, apiKey |-> S_abc, secret |-> TRUE],
     [found |-> TRUE, apiKey |-> S_ck, secret |-> FALSE],
     [found |-> TRUE, apiKey |-> <<>>, secret |-> TRUE]}

\* start-up under every environment and database, then signed calls
CredentialsInit ==
    /\ cfg \in {[apiKey |-> k, keyFile |-> F_seed] : k \in {S_abc, <<>>}}
    /\ InitChannel
    /\ pin = EmptyMap
    /\ pout = NotBuilt

CredentialsNext ==
    \/ \E db \in StoredCredentials, envSecret, testnet \in BOOLEAN :
          Startup(db, envSecret, testnet)
    \/ svc.client.started /\
          SendSignedRequest(IdOfCall(ncalls + 1), "account.status",
                            SignedInput.nil, SignedInput.m, 0, "any")
    \/ ServerTimeFetched(FetchFailed)
    \/ WriteOk
    \/ WriteFail
    \/ PeerSend(WSResponse(1, StatusOK, R_object, NoError), 1)
    \/ ReadMsg
    \/ ReadFail
    \/ \E err \in BOOLEAN : Close(err)

CredentialsSpec == CredentialsInit /\ [][CredentialsNext]_vars

\* key generation followed by signed calls that load the generated key
KeyNext ==
    \/ \E seed \in GeneratedSeeds, opened \in BOOLEAN :
          GenerateEd25519Key(seed, opened)
    \/ \E i \in 1..MaxWriters, written \in BOOLEAN : KeyFileWritten(i, written)
    \/ SendSignedRequest(IdOfCall(ncalls + 1), "account.status",
                         SignedInput.nil, SignedInput.m, 0, "any")
    \/ ServerTimeFetched(FetchFailed)
    \/ WriteOk
    \/ WriteFail

KeySpec == Init /\ [][KeyNext]_vars

\* buildSignaturePayload alone, over every enumerated mapping
PayloadInit ==
    /\ cfg = [apiKey |-> S_abc, keyFile |-> F_seed]
    /\ InitChannel
    /\ pin \in PayloadInputs
    /\ pout = NotBuilt

PayloadNext == BuildPayload

PayloadSpec == PayloadInit /\ [][PayloadNext]_vars

(***************************************************************************)
(* The canonical payload, stated without the code's algorithm: repeatedly  *)
(* take the least remaining key in byte-wise lexicographic order.          *)
(***************************************************************************)
LexLt(a, b) ==
    \E i \in 1..Len(b) :
        /\ i <= Len(a) + 1
        /\ \A j \in 1..(i - 1) : a[j] = b[j]
        /\ (i = Len(a) + 1 \/ a[i] < b[i])

RECURSIVE CanonicalOver(_, _)
CanonicalOver(m, S) ==
    IF S = {} THEN <<>>
    ELSE LET k == CHOOSE k \in S : \A j \in S \ {k} : LexLt(k, j)
             rest == S \ {k}
         IN  k \o <<61>> \o FormatValue(m[k])
               \o (IF rest = {} THEN <<>> ELSE <<38>> \o CanonicalOver(m, rest))

CanonicalPayload(m) == CanonicalOver(m, (DOMAIN m) \ {K_signature})

\* {symbol: X, side: BUY, apiKey: abc, timestamp: 1700000000000}
ExampleParams ==
    MapSet(Map3(K_symbol, VString(S_X), K_side, VString(S_BUY), K_apiKey, VString(S_abc)),
           K_timestamp, VInt64(T_1700000000000))

\* apiKey=abc&side=BUY&symbol=X&timestamp=1700000000000
ExamplePayload ==
    K_apiKey \o <<61>> \o S_abc \o <<38>> \o K_side \o <<61>> \o S_BUY \o <<38>>
        \o K_symbol \o <<61>> \o S_X \o <<38>>
        \o K_timestamp \o <<61, 49, 55, 48, 48, 48, 48, 48, 48, 48, 48, 48, 48, 48>>

\* C1: whatever order the map range visits the keys in, buildSignaturePayload
\* returns the key=value pairs of every key but "signature", in ascending
\* lexicographic key order, joined by single '&' with none leading or trailing;
\* the example mapping gives apiKey=abc&side=BUY&symbol=X&timestamp=1700000000000.
C1_PayloadCanonical ==
    pout.built =>
        /\ pout.payload = CanonicalPayload(pin)
        /\ (pin = ExampleParams => pout.payload = ExamplePayload)

C1_Witness == pout.built /\ pin = ExampleParams /\ pout.payload = ExamplePayload

\* C2: when the caller's mapping already holds a "signature" entry, the payload
\* signed is that of the mapping without the entry, and the request written
\* carries the freshly computed signature in place of the caller's value.
C2_PresetSignatureIgnored ==
    (call.signed /\ call.keyOk /\ pc # "fetch" /\ K_signature \in DOMAIN call.params0) =>
        /\ call.payload = CanonicalPayload(MapDel(call.params, K_signature))
        /\ call.params[K_signature] = VSignature(call.priv, call.payload)
        /\ \A i \in DOMAIN sent :
              /\ sent[i].params[K_signature] = VSignature(call.priv, call.payload)
              /\ sent[i].params[K_signature] # call.params0[K_signature]

C2_Witness ==
    /\ call.signed /\ sent # <<>>
    /\ call.params0 = P_presigned
    /\ sent[1].params[K_signature] = VSignature(call.priv, call.payload)

\* C3: the signature of a signed call covers the final mapping, apiKey and
\* timestamp included, and the params written are exactly that mapping plus
\* the "signature" entry.
C3_SignedIsSent ==
    (call.signed /\ call.keyOk) =>
        \A i \in DOMAIN sent :
            LET m == MapDel(sent[i].params, K_signature)
            IN  /\ sent[i].hasParams
                /\ {K_apiKey, K_timestamp} \subseteq DOMAIN m
                /\ K_signature \in DOMAIN sent[i].params
                /\ sent[i].params[K_signature]
                      = VSignature(call.priv, CanonicalPayload(m))
                /\ \A k \in DOMAIN call.params0 \ {K_signature} :
                      k \in DOMAIN m /\ m[k] = call.params0[k]

C3_Witness ==
    /\ call.signed /\ call.keyOk /\ sent # <<>>
    /\ call.params0 = P_order
    /\ DOMAIN sent[1].params = {K_apiKey, K_side, K_signature, K_symbol, K_timestamp}

\* the key files that hold no usable key
UnusableKeyFiles == {F_missing, F_tenBytes, F_pemOther}

\* C4: a signed call made while the key file is missing or invalid returns an
\* error and writes nothing to the connection.
C4_NoKeyNoRequest ==
    (call.signed /\ cfg.keyFile \in UnusableKeyFiles) =>
        /\ pc = "done"
        /\ ret.kind = "key"
        /\ sent = <<>>

C4_Witness ==
    call.signed /\ cfg.keyFile = F_tenBytes /\ pc = "done" /\ ret.kind = "key"

\* a call has finished after reading a well-formed frame
Answered == pc = "done" /\ call.nread > 0 /\ call.resp.wellformed

\* C5: a call reports success only on a frame whose id is the id of the request
\* it wrote.
C5_SuccessOnlyOnOwnId ==
    (Answered /\ ret = RetNil) => call.resp.id = call.id

\* C6: a frame with a non-success status or with an error object makes the
\* call return an error that carries the frame's code and message.
C6_RejectionIsError ==
    (Answered /\ (call.resp.status # StatusOK \/ call.resp.error.present)) =>
        /\ ret.kind = "status"
        /\ ret.envelope = call.resp

\* C7: a frame whose status is not 200 makes the call return an error holding
\* the serialised frame, and the out value is left as it was.
C7_NonSuccessStatus ==
    (Answered /\ call.resp.status # StatusOK) =>
        /\ ret = ErrRequestFailed(call.resp)
        /\ out = OutZero

C7_Witness ==
    /\ Answered /\ call.resp.status = 400 /\ call.resp.result = R_object
    /\ call.outShape = "any" /\ ret.kind = "status" /\ out = OutZero

Blocked == pc \in {"write", "read"}

\* C8: a call with a deadline does not block forever: it returns, and when it
\* returns without a frame because its read deadline passed, the error says so
\* and differs from a connection failure.
C8_DeadlineBoundsCall ==
    (Blocked /\ call.deadline # 0) ~>
        (/\ pc = "done"
         /\ (ret.kind = "read" /\ conn.readErr = "timeout") => ret.cause = "timeout")

C8_Witness ==
    /\ pc = "done" /\ call.deadline # 0 /\ call.nread = 0 /\ nrecv = 0
    /\ ret = Err("read", "timeout") /\ now >= call.deadline

\* C9: with a deadline in the context, the connection's write deadline is that
\* deadline while the call is in WriteJSON, and its read deadline is that
\* deadline while the call is in ReadJSON.
C9_DeadlineInstalled ==
    call.deadline # 0 =>
        /\ (pc = "write" => conn.writeDeadline = call.deadline)
        /\ (pc = "read" => conn.readDeadline = call.deadline)

C9_Witness ==
    /\ pc = "read" /\ ncalls = 2 /\ call.deadline # 0
    /\ conn.readDeadline = call.deadline /\ conn.writeDeadline = call.deadline

\* C10: once the context is cancelled while the call is blocked in the write or
\* the read, the call returns.
C10_CancelUnblocks == (Blocked /\ call.cancelled) ~> (pc = "done")

\* a call has returned an error
Failed == pc = "done" /\ ret.kind # "nil"

\* C11: a call writes at most one request and consumes at most one inbound
\* frame; a call that returned a write error wrote and read nothing, a call
\* that returned a read, rejection or decode error wrote one request and read at
\* most one frame; and no step of a call replaces the connection by a fresh one
\* (a closed connection stays closed, a failed one keeps its error).
C11_OneWriteOneRead ==
    /\ [](/\ Len(sent) <= 1 /\ call.nread <= 1
          /\ (Failed /\ ret.kind \in {"key", "write"} => sent = <<>> /\ call.nread = 0)
          /\ (Failed /\ ret.kind \in {"read", "status", "decode"} => Len(sent) = 1)
          /\ (Failed /\ ret.kind = "read" /\ ret.cause # "json" => call.nread = 0))
    /\ [][/\ (conn.closed => conn'.closed)
          /\ (conn.writeErr # "" => conn'.writeErr = conn.writeErr)
          /\ (conn.readErr # "" => conn'.readErr = conn.readErr)
          /\ (Failed /\ pc' = "done" => UNCHANGED <<sent, ret>> /\ call'.nread = call.nread)]_vars

C11_Witness ==
    /\ Failed /\ ret = Err("read", "json")
    /\ Len(sent) = 1 /\ call.nread = 1 /\ inbox # <<>>

\* the file contents the key resolution is specified to take a key from
AcceptedContent(file) ==
    file.readable /\ (file.pem = "ed25519" \/ Len(file.data) \in {SeedSize, PrivateKeySize})

\* C12: the key resolution of a signed call yields a key only from a file that
\* holds a PKCS#8 Ed25519 PEM block, or exactly 32 bytes, or exactly 64 bytes;
\* from an unreadable file or any other content it yields an error and no key.
C12_KeyOnlyFromExactContent ==
    call.signed =>
        /\ (call.keyOk => AcceptedContent(cfg.keyFile))
        /\ (~AcceptedContent(cfg.keyFile) => ret.kind = "key" /\ call.priv = NoKey)

\* the millisecond reading T a call's timestamp is taken from
TimeSource(c) ==
    IF c.fetch.ok /\ c.fetch.serverTime # WideOf(0) THEN c.fetch.serverTime ELSE WideOf(c.at)

\* m = floor(T / 1000) * 1000 for T >= 0: the multiple of 1000 with m <= T < m + 1000
\* (10^9 is a multiple of 1000, so only the low part takes part)
IsFloorToSecond(m, T) ==
    /\ ~m.neg /\ ~T.neg /\ m.hi = T.hi
    /\ m.lo % 1000 = 0 /\ m.lo <= T.lo /\ T.lo < m.lo + 1000

\* C13: the timestamp a signed call injects is floor(T/1000)*1000, T being the
\* server time when the fetch gave a non-zero one and the local clock otherwise
\* (0 gives 0, 1000 and 1999 give 1000); it is the timestamp written; and a call
\* whose time fetch failed goes on to the write.
C13_TimestampFloor ==
    (call.signed /\ call.keyOk /\ call.fetched /\ pc # "fetch") =>
        LET T == TimeSource(call)
            ts == call.params[K_timestamp]
        IN  /\ ts.t = "int64" /\ IsFloorToSecond(ts.i, T)
            /\ (T = WideOf(0) => ts.i = WideOf(0))
            /\ (T \in {WideOf(1000), WideOf(1999)} => ts.i = WideOf(1000))
            /\ \A i \in DOMAIN sent : sent[i].params[K_timestamp] = ts
            /\ (pc = "done" /\ sent = <<>> => ret.kind = "write")

C13_Witness ==
    /\ call.signed /\ call.fetched /\ ~call.fetch.ok /\ call.at = 1999
    /\ sent # <<>> /\ sent[1].params[K_timestamp] = VInt64(WideOf(1000))

\* the mapping the caller handed to the call (a nil one counts as empty)
Supplied(c) == IF c.paramsNil THEN EmptyMap ELSE c.params0

\* C14: a signed call leaves every entry the caller supplied as it is, apiKey
\* and timestamp included (a supplied timestamp is not truncated and no server
\* time is fetched for it); it adds apiKey and timestamp only where the caller
\* supplied none; what is signed and written holds the supplied values.
C14_InjectOnlyAbsent ==
    (call.signed /\ call.keyOk /\ pc # "fetch") =>
        LET p0 == Supplied(call) IN
        /\ \A k \in DOMAIN p0 \ {K_signature} : call.params[k] = p0[k]
        /\ DOMAIN call.params = DOMAIN p0 \cup {K_apiKey, K_timestamp, K_signature}
        /\ call.fetched = (K_timestamp \notin DOMAIN p0)
        /\ (K_apiKey \notin DOMAIN p0 => call.params[K_apiKey] = VString(cfg.apiKey))
        /\ call.payload = CanonicalPayload(call.params)
        /\ \A i \in DOMAIN sent : sent[i].params = call.params

C14_Witness ==
    /\ call.signed /\ call.params0 = P_own /\ ~call.fetched /\ sent # <<>>
    /\ sent[1].params[K_timestamp] = VInt64(T_1700000000123)
    /\ sent[1].params[K_apiKey] = VString(S_ck)
    /\ sent[1].params[K_symbol] = VString(S_X)

\* C15: Close never panics, however often it is called and whatever happened on
\* the channel before, on a client with a connection and on one without: with
\* a connection it leaves the connection closed and returns nil or an error,
\* without one it returns nil.
C15_CloseNeverPanics ==
    /\ closeRet # "panic"
    /\ (closeRet # "none" /\ ~conn.isNil => conn.closed)
    /\ (closeRet # "none" /\ conn.isNil => closeRet = "nil" /\ ~conn.closed)

C15_Witness == Failed /\ ret.kind = "write" /\ conn.closed /\ closeRet = "closed"

\* C16: the request an unsigned call writes carries the caller's id and method
\* and exactly the caller's mapping, with no apiKey, timestamp or signature
\* added, and it has a params member exactly when that mapping has an entry.
C16_UnsignedAsProvided ==
    (~call.signed /\ ncalls > 0) =>
        /\ call.params = call.params0
        /\ \A i \in DOMAIN sent :
              /\ sent[i].id = call.id /\ sent[i].method = call.method
              /\ sent[i].params = Supplied(call)
              /\ sent[i].hasParams = (DOMAIN Supplied(call) # {})

C16_Witness ==
    /\ ~call.signed /\ ~call.paramsNil /\ call.params0 = EmptyMap
    /\ sent # <<>> /\ ~sent[1].hasParams

\* C17: a frame that is not JSON makes the call return the read error that
\* wraps the JSON error, a success frame whose result does not fit the out
\* value the decode error; the rejection error is returned for frames with a
\* non-success status and for no others, so neither is mistaken for it.
C17_DecodeErrorDistinct ==
    (pc = "done" /\ call.nread > 0) =>
        /\ (~call.resp.wellformed => ret = Err("read", "json"))
        /\ ((call.resp.wellformed /\ call.resp.status = StatusOK
               /\ call.outShape # "nil" /\ call.resp.result # NoResult
               /\ ~Decodes(call.resp.result, call.outShape))
            => (ret = Err("decode", "") /\ out = OutZero))
        /\ (ret.kind = "status" <=> call.resp.wellformed /\ call.resp.status # StatusOK)

C17_Witness ==
    /\ Answered /\ call.resp.status = StatusOK /\ call.resp.result = R_object
    /\ call.outShape = "string" /\ ret = Err("decode", "")

\* the reader of the stream has a connection to read from
Streaming == ws.conn = "open" /\ ws.reader \in {"select", "read"}

\* C18: once the reader of the stream has stopped on a read error while the
\* owner has not closed the client, the client is connected again with a
\* reader running (or the owner has closed it in the meantime).
C18_AutoReconnect ==
    (ws.reader = "failed" /\ ws.stopChan = "open")
        ~> (Streaming \/ ws.stopChan = "closed" \/ ws.panicked)

\* the reader has dealt with the frame ReadMessage returned in this step
FrameHandled == ws.reader = "frame" /\ ws'.reader # "frame"

\* C19: the channel never holds more than 100 events, and holds them in the
\* order they were read, after the last one the consumer took; the reader that
\* holds a frame can always go on, whatever the consumer does, and goes back
\* to the top of its loop: a frame that does not decode is skipped and changes
\* nothing in the channel, an event is appended when there is room and dropped
\* when there is none; the consumer takes the oldest event.
C19_BufferBounded ==
    /\ [](/\ Len(ws.messageChan) <= Capacity
          /\ \A i \in 1..(Len(ws.messageChan) - 1) :
                ws.messageChan[i] < ws.messageChan[i + 1]
          /\ (ws.messageChan # <<>> =>
                /\ ws.lastTaken < Head(ws.messageChan)
                /\ ws.messageChan[Len(ws.messageChan)] <= ws.nevents)
          /\ ws.nframes = ws.nevents + ws.skipped + (IF ws.reader = "frame" THEN 1 ELSE 0)
          /\ (ws.reader = "frame" /\ ~ws.panicked => ENABLED ReaderHandleFrame))
    /\ [][/\ (FrameHandled => ws'.reader = "select")
          /\ (FrameHandled /\ ws.frame = "junk" =>
                /\ ws'.skipped = ws.skipped + 1
                /\ ws'.nevents = ws.nevents
                /\ ws'.messageChan = ws.messageChan)
          /\ (FrameHandled /\ ws.frame = "event" =>
                /\ ws'.skipped = ws.skipped
                /\ ws'.nevents = ws.nevents + 1
                /\ ws'.messageChan =
                      IF Len(ws.messageChan) = Capacity THEN ws.messageChan
                      ELSE Append(ws.messageChan, ws'.nevents)
                /\ (Len(ws.messageChan) = Capacity => ws'.lastDropped = ws'.nevents))
          /\ (ws'.taken # ws.taken =>
                /\ ws'.lastTaken = Head(ws.messageChan)
                /\ ws'.messageChan = Tail(ws.messageChan))]_vars

C19_Witness ==
    /\ ws.lastDropped = Capacity + 1 /\ ws.skipped = 1 /\ ws.lastTaken = 1
    /\ ws.nevents = Capacity + 2
    /\ Len(ws.messageChan) = Capacity /\ ws.messageChan[Capacity] = Capacity + 2

\* C20: every position-mode request that reaches the service is answered with
\* the not-implemented error of the client stub (status 500), a request that
\* does not is answered 400; none is answered with a success (status 200), and
\* the position_mode store is never written.
C20_PositionModeStubs ==
    /\ pm.store = NoPositionMode.store
    /\ \A i \in DOMAIN pm.log :
          /\ pm.log[i].status \in {400, 500}
          /\ pm.log[i].body # "Position mode updated successfully"
          /\ (pm.log[i].status = 500 =>
                pm.log[i].body = IF pm.log[i].op = "set"
                                 THEN Client_SetPositionMode(TRUE)
                                 ELSE Client_GetPositionMode.err)
          /\ (pm.log[i].op = "get" => pm.log[i].status = 500)

C20_Witness ==
    /\ Len(pm.log) = 2
    /\ pm.log[1] = [op |-> "set", status |-> 500, body |-> Client_SetPositionMode(TRUE)]
    /\ pm.log[2] = [op |-> "get", status |-> 500, body |-> Client_GetPositionMode.err]

\* both goroutines of the stream have returned
Terminated == ws.keepAlive = "exited" /\ ws.reader \in {"failed", "stopped"}

C28_CloseNeverPanics == ~ws.panicked

\* C30: a signed call made after GenerateEd25519Key wrote ed25519.key loads a
\* key from it, and that key has the generated seed and the public key the
\* endpoint returned, whatever the seed.
C30_GeneratedKeyLoads ==
    (/\ svc.keygen.status = 200
     /\ call.signed
     /\ call.file = KeyFile(TRUE, "none", <<>>, svc.keygen.seed)) =>
        /\ call.keyOk
        /\ call.priv.seed = svc.keygen.seed
        /\ call.priv.pub.bytes = svc.keygen.pub.bytes

\* C29: once start-up has called SetAPIKeys(k, s), the apiKey a signed call
\* injects, signs and writes is k.
C29_InjectedKeyIsClientKey ==
    (svc.client.keysSet /\ call.signed /\ call.keyOk) =>
        /\ call.params[K_apiKey] = VString(svc.client.apiKey)
        /\ \A i \in DOMAIN sent : sent[i].params[K_apiKey] = VString(svc.client.apiKey)

\* C22: in every interleaving of invocations of the two account endpoints,
\* each invocation past its dial holds a channel that it dialed and that no
\* other invocation holds; no channel has more than one request in flight, and
\* a request is in flight only on an open channel; and every channel whose
\* invocation has returned is closed, whatever the invocation returned.
C22_OwnChannelClosed ==
    /\ \A i \in 1..MaxInvocations :
          LET v == svc.inv[i] IN
          /\ (v.pc \in {"call", "inflight", "closing"} =>
                /\ v.chan \in DOMAIN svc.chans
                /\ svc.chans[v.chan].dialedBy = i
                /\ svc.chans[v.chan].state = "open")
          /\ (v.pc = "returned" /\ v.chan # 0 => svc.chans[v.chan].state = "closed")
          /\ \A j \in 1..MaxInvocations : (j # i /\ v.chan # 0) => svc.inv[j].chan # v.chan
    /\ \A c \in DOMAIN svc.chans :
          /\ svc.chans[c].inflight <= 1
          /\ (svc.chans[c].inflight = 1 => svc.chans[c].state = "open")
          /\ svc.inv[svc.chans[c].dialedBy].chan = c
          /\ (svc.inv[svc.chans[c].dialedBy].pc = "returned" =>
                svc.chans[c].state = "closed" /\ svc.chans[c].inflight = 0)

C22_Witness ==
    /\ Len(svc.chans) = 2
    /\ svc.inv[1].pc = "returned" /\ svc.inv[1].err = "read"
    /\ svc.chans[svc.inv[1].chan].state = "closed"
    /\ svc.inv[2].pc = "inflight" /\ svc.chans[svc.inv[2].chan].inflight = 1
    /\ svc.inv[1].method # svc.inv[2].method

\* the stored order that a modification request addresses, 0 when none
Addressed(orders, req) ==
    IF req.orderID > 0
    THEN IF \E i \in DOMAIN orders : orders[i].binanceOrderID = req.orderID
         THEN CHOOSE i \in DOMAIN orders :
                /\ orders[i].binanceOrderID = req.orderID
                /\ \A j \in 1..(i - 1) : orders[j].binanceOrderID # req.orderID
         ELSE 0
    ELSE IF \E i \in DOMAIN orders : orders[i].clientOrderID = req.clientOrderID
         THEN CHOOSE i \in DOMAIN orders :
                /\ orders[i].clientOrderID = req.clientOrderID
                /\ \A j \in 1..(i - 1) : orders[j].clientOrderID # req.clientOrderID
         ELSE 0

\* C21: ModifyFuturesOrder is a database update.  In the step in which a call
\* returns: the exchange modification has failed and the call has sent the
\* exchange nothing; given an order id (> 0) or a client order id that
\* addresses a stored order, and a database that carries the update out, that
\* order gets the request's quantity, price and stop price where they are > 0,
\* keeps the others, gets as updated_at the time the call read before the
\* update, and no other order changes; given neither identifier, or a failing
\* database, the call returns an error and the collection is unchanged.
C21_ModifyIsDatabaseUpdate ==
    [][(svc' # svc /\ svc'.last.op = "ModifyFuturesOrder") =>
        LET req == svc'.last.req
            k == Addressed(svc.orders, req)
        IN  /\ svc'.last.exchErr # ""
            /\ svc'.last.sent = 0
            /\ svc'.exch = svc.exch
            /\ ((req.orderID <= 0 /\ req.clientOrderID = "") \/ svc'.last.dbFailed) =>
                  (svc'.last.err # "" /\ svc'.orders = svc.orders)
            /\ ((req.orderID > 0 \/ req.clientOrderID # "") /\ k # 0
                    /\ ~svc'.last.dbFailed) =>
                  /\ svc'.last.err = ""
                  /\ Len(svc'.orders) = Len(svc.orders)
                  /\ \A i \in DOMAIN svc.orders : i # k => svc'.orders[i] = svc.orders[i]
                  /\ svc'.orders[k].quantity =
                        (IF req.quantity > 0 THEN req.quantity ELSE svc.orders[k].quantity)
                  /\ svc'.orders[k].price =
                        (IF req.price > 0 THEN req.price ELSE svc.orders[k].price)
                  /\ svc'.orders[k].stopPrice =
                        (IF req.stopPrice > 0 THEN req.stopPrice ELSE svc.orders[k].stopPrice)
                  /\ svc'.orders[k].updatedAt = svc'.last.stamp
                  /\ svc'.orders[k].binanceOrderID = svc.orders[k].binanceOrderID
                  /\ svc'.orders[k].status = svc.orders[k].status]_vars

C21_Witness ==
    /\ svc.last.op = "ModifyFuturesOrder"
    /\ svc.last.err = ""
    /\ svc.last.exchErr # ""
    /\ svc.last.req.orderID = 0 /\ svc.last.req.clientOrderID = "a"
    /\ svc.last.req.quantity = 3 /\ svc.last.req.price = 4
    /\ svc.exch.sent = 2
    /\ Len(svc.orders) = 2
    /\ svc.orders[2].clientOrderID = "a"
    /\ svc.orders[2].quantity = 3 /\ svc.orders[2].price = 4
    /\ svc.orders[2].updatedAt = svc.last.stamp
    /\ svc.last.stamp = 1 /\ svc.clock = 0
    /\ svc.orders[1].quantity = 1 /\ svc.orders[1].updatedAt = 0

\* C25: when CreateAdvancedFuturesOrder fails with the unsupported-order-type
\* error, the call has sent the exchange no request and has changed the
\* leverage of no symbol.
C25_UnsupportedTypeSendsNothing ==
    (svc.last.op = "CreateAdvancedFuturesOrder" /\ svc.last.err = "unsupported order type") =>
        /\ svc.last.sent = 0
        /\ ~svc.last.levSet

\* C23: every order record that CreateBatchOrders stored carries the symbol,
\* side, quantity and price of the request whose placement on the exchange
\* produced the record's BinanceOrderID.
C23_BatchPairsRequestWithResponse ==
    \A i \in DOMAIN svc.orders :
        \E j \in DOMAIN svc.exch.orders :
            /\ svc.exch.orders[j].orderID = svc.orders[i].binanceOrderID
            /\ svc.exch.orders[j].req.symbol = svc.orders[i].symbol
            /\ svc.exch.orders[j].req.side = svc.orders[i].side
            /\ svc.exch.orders[j].req.quantity = svc.orders[i].quantity
            /\ svc.exch.orders[j].req.price = svc.orders[i].price

\* C24: a stored order has status CANCELED only when the exchange cancelled
\* the order of that id, and a CancelBatchOrders made through the HTTP handler
\* changes the status of no stored order.
C24_CanceledOnlyWhenCancelled ==
    /\ \A i \in DOMAIN svc.orders :
          svc.orders[i].status = "CANCELED" =>
              \E j \in DOMAIN svc.exch.orders :
                  /\ svc.exch.orders[j].orderID = svc.orders[i].binanceOrderID
                  /\ svc.exch.orders[j].status = "CANCELED"
    /\ svc.last.op = "Handlers.CancelBatchOrders" => svc.last.changed = 0

\* the stored FUTURES positions of a symbol
StoredFutures(symbol) ==
    {i \in DOMAIN svc.positions :
        svc.positions[i].symbol = symbol /\ svc.positions[i].type = "FUTURES"}

\* the size of a symbol's position among the positions a sync fetched
Fetched(bps, symbol) ==
    LET i == CHOOSE j \in DOMAIN bps : bps[j].symbol = symbol
    IN  bps[i].positionAmt

\* C26: right after SyncPositionsFromBinance has returned without error, a
\* symbol whose position the call fetched from the exchange is not flat has
\* exactly one stored FUTURES record, carrying the fetched quantity, and a
\* symbol whose fetched position is flat has no stored FUTURES record.
C26_StoredPositionsMatchExchange ==
    (svc.last.op = "SyncPositionsFromBinance" /\ svc.last.err = "") =>
        \A symbol \in Symbols :
            IF Fetched(svc.last.bps, symbol) # 0
            THEN /\ Cardinality(StoredFutures(symbol)) = 1
                 /\ \A i \in StoredFutures(symbol) :
                       svc.positions[i].quantity = Fetched(svc.last.bps, symbol)
            ELSE StoredFutures(symbol) = {}

====
